---- MODULE Spec2Model ----
(***************************************************************************)
(* Model of rrf.py: the ingestion side (pick_lat_lon, normalise_records).  *)
(*                                                                         *)
(* Python/JSON values are records [k, n, s]: k is the kind of the value,   *)
(* n its number (when k = "num"; the sign when k = "inf") and s its text   *)
(* (when k = "str").  Coordinates are carried in tenths of a degree        *)
(* (174.7 is 1747), frequencies in MHz.                                    *)
(***************************************************************************)
EXTENDS Integers, Sequences, FiniteSets, TLC

VARIABLES
    geo_refs,   \* pick_lat_lon: the geo_refs argument
    tr2193,     \* transformer_2193_to_4326 is not None
    tr4167,     \* transformer_4167_to_4326 is not None
    tr4272,     \* transformer_4272_to_4326 is not None
    tf,         \* what .transform() did for each entry of the call
    result,     \* pick_lat_lon: the returned (lat, lon, sourceType)
    gpc,        \* pick_lat_lon: "call" before the call, "done" after it
    records,    \* normalise_records: the records argument
    idx,        \* normalise_records: number of records the loop has consumed
    out,        \* normalise_records: the out list
    mhz,        \* classify_band: the mhz argument
    bandCode,   \* classify_band: the returned code ("" before the call)
    licensee,   \* carrier_key_from_licensee: the licensee argument
    carrierKey, \* carrier_key_from_licensee: the returned key ("" before the call)
    tz,               \* the browser's offset from UTC, in hours
    ipc,              \* init(): "loading" until the fetch ends, then "ready" or "failed"
    dataFile,         \* init(): the records in the body of DATA_URL
    DATA,             \* the page's records, decorated with carrierKey
    carrierBtns,      \* data-key of the buttons buildCarrierUI made
    bandBtns,         \* data-code of the buttons buildBandUI made
    carrierDisabled,  \* the carrier buttons with disabled = true
    bandDisabled,     \* the band buttons with disabled = true
    carrierSelected,
    bandSelected,
    qLocation,        \* value of the location input
    qDistrict,        \* value of the district select
    qCommFrom,        \* values of the four date inputs
    qCommTo,
    qExpFrom,
    qExpTo,
    refreshTimer,     \* TRUE while refreshTimer holds the id of a timeout
    timeouts,         \* the timeouts of refreshDebouncedLocation the browser holds
    latestFiltered,
    currentGroups,              \* the MarkerGroups, in the order of the Map
    currentClustersByGroupKey,  \* group key -> its Cluster
    clicks,           \* history: the last facet click and the set before it
    lineStart,        \* drawNearestCarrierLines: start, while its lines stand
    addressLines,     \* the lines of addressLineLayer, in the order drawn
    qAddress,                 \* value of the address box, a sequence of characters
    addressSuggestTimer,      \* the pending timeout and the query it holds
    addressSuggestController, \* the lookup of the current AbortController, 0 for null
    lookups,                  \* the fetches of fetchAddressSuggestions, in order
    addressSuggestionsCache,  \* the results in the suggestion list
    lastRender,       \* history: the last renderAddressSuggestions call
    searches,         \* the fetches of handleAddressSearch, in the order submitted
    addressMarker,    \* where addressMarker stands
    retries,      \* post_page: the retries argument
    attempt,      \* post_page: attempts made so far
    last_err,     \* post_page: what the last failed attempt raised
    slept,        \* post_page: the seconds of each time.sleep, in order
    pp,           \* post_page: "run" in the loop, then "returned" or "raised"
    response,     \* post_page: the returned r.json()
    posts,        \* history: what each session.post met
    fa,           \* fetch_all: "first", "loop", then "returned" or "raised"
    max_pages,    \* fetch_all: the max_pages argument
    total_pages,
    page,         \* fetch_all: payload["page"]
    results,
    first,        \* fetch_all: the response to page 1
    calls,        \* history: the page and the outcome of each post_page call
    args,         \* main: the mode flag on the command line
    json_in,      \* main: what the file args.json_in holds
    written,      \* main: the files written, in order
    mn,           \* main: "start", "fetching", then "returned" or "raised"
    exit,         \* main: the returned exit code, -1 before it returns
    fpc,                \* the flood-fill of refresh: "outer", "inner", then "done"
    floodGroups,        \* its groupList
    floodUnassigned,    \* its Set unassigned, in insertion order
    floodQueue,         \* its queue
    floodClusterGroups, \* its clusterGroups
    floodClusters,      \* its Map clusterByGroupKey
    removals,           \* history: how often each key left unassigned
    pushes              \* history: how often each group was put on the queue

geoVars == <<geo_refs, tr2193, tr4167, tr4272, tf, result, gpc>>

normVars == <<records, idx, out>>

classVars == <<mhz, bandCode, licensee, carrierKey>>

selVars == <<carrierSelected, bandSelected>>

inputVars == <<qLocation, qDistrict, qCommFrom, qCommTo, qExpFrom, qExpTo>>

pageVars == <<tz, ipc, dataFile, DATA, carrierBtns, bandBtns>>

viewVars ==
    <<carrierDisabled, bandDisabled, latestFiltered, currentGroups,
      currentClustersByGroupKey, lineStart, addressLines>>

searchVars == <<searches, addressMarker>>

addrVars ==
    <<qAddress, addressSuggestTimer, addressSuggestController, lookups,
      addressSuggestionsCache, lastRender, searchVars>>

floodVars ==
    <<fpc, floodGroups, floodUnassigned, floodQueue, floodClusterGroups,
      floodClusters, removals, pushes>>

uiVars ==
    <<pageVars, selVars, inputVars, viewVars, refreshTimer, timeouts, clicks, addrVars, floodVars>>

postVars == <<retries, attempt, last_err, slept, pp, response, posts>>

fetchVars == <<fa, max_pages, total_pages, page, results, first, calls>>

mainVars == <<args, json_in, written, mn, exit>>

cliVars == <<postVars, fetchVars, mainVars>>

vars == <<geoVars, normVars, classVars, uiVars, cliVars>>

(***************************************************************************)
(* Bounds of the model.                                                    *)
(***************************************************************************)
MaxGeo == 2
MaxRecords == 2
MaxParts == 2
MaxData == 3
MaxDateFilters == 1

\* lookups of address suggestions in one run
MaxLookups == 3

\* the largest retries argument of post_page
MaxRetries == 5

\* the largest totalPages the server reports
MaxPages == 3
MaxGroups == 3
MaxSearches == 2

(***************************************************************************)
(* Values.                                                                 *)
(***************************************************************************)
Null == [k |-> "null", n |-> 0, s |-> ""]
Missing == [k |-> "missing", n |-> 0, s |-> ""]
NaN == [k |-> "nan", n |-> 0, s |-> ""]
Num(x) == [k |-> "num", n |-> x, s |-> ""]
Inf(sign) == [k |-> "inf", n |-> sign, s |-> ""]
Str(x) == [k |-> "str", n |-> 0, s |-> x]

\* dict.get(key): a missing key reads as None
Get(v) == IF v.k = "missing" THEN Null ELSE v

\* Python truthiness of a value: None, "", 0 and a missing key are falsy
Truthy(v) ==
    CASE v.k \in {"null", "missing"} -> FALSE
      [] v.k = "str" -> v.s # ""
      [] v.k = "num" -> v.n # 0
      [] OTHER -> TRUE

\* float(<str>): the number a numeric text denotes; Null stands for ValueError
ParseFloat(s) ==
    CASE s = "174.7" -> Num(1747)
      [] s = "-41.2" -> Num(-412)
      [] s = "700" -> Num(700)
      [] s = "750" -> Num(750)
      [] s = "800" -> Num(800)
      [] s = "nan" -> NaN
      [] OTHER -> Null

\* float(v): ok is FALSE when float() raises (TypeError on None, KeyError on
\* a missing key, ValueError on a text that is no number)
PyFloat(v) ==
    CASE v.k \in {"num", "nan", "inf"} -> [ok |-> TRUE, v |-> v]
      [] v.k = "str" ->
            LET p == ParseFloat(v.s) IN [ok |-> p.k # "null", v |-> p]
      [] OTHER -> [ok |-> FALSE, v |-> Null]

\* c < x and x < c for a float x and a literal c: every comparison with nan
\* is false, -inf is below and +inf above every literal
ConstLt(c, x) == (x.k = "num" /\ c < x.n) \/ (x.k = "inf" /\ x.n > 0)
LtConst(x, c) == (x.k = "num" /\ x.n < c) \/ (x.k = "inf" /\ x.n < 0)

\* a - b on floats
FSub(a, b) ==
    CASE a.k = "nan" \/ b.k = "nan" -> NaN
      [] a.k = "inf" /\ b.k = "inf" -> IF a.n = b.n THEN NaN ELSE a
      [] a.k = "inf" -> a
      [] b.k = "inf" -> Inf(0 - b.n)
      [] OTHER -> Num(a.n - b.n)

\* str.upper() on the texts of the model
PyUpper(s) ==
    CASE s = "d" -> "D"
      [] s = "d2000" -> "D2000"
      [] s = "tm2000" -> "TM2000"
      [] s = "rcv" -> "RCV"
      [] s = "Rcv" -> "RCV"
      [] s = "trn" -> "TRN"
      [] OTHER -> s

\* (d.get(key) or "").upper() for a key holding a text or nothing
UpperOrEmpty(v) == IF Truthy(v) THEN PyUpper(v.s) ELSE ""

(***************************************************************************)
(* pick_lat_lon                                                            *)
(***************************************************************************)
\* InBox with <= for <: the edges of the box accepted
InBoxInclusive(lat, lon) ==
    /\ ~LtConst(lat, -600) /\ ~ConstLt(-200, lat) /\ lat.k = "num"
    /\ ~LtConst(lon, 1500) /\ ~ConstLt(1900, lon) /\ lon.k = "num"

\* the plausibility box  -60 < lat < -20 and 150 < lon < 190  (tenths)
InBox(lat, lon) ==
    /\ ConstLt(-600, lat) /\ LtConst(lat, -200)
    /\ ConstLt(1500, lon) /\ LtConst(lon, 1900)

\* DirectTags with D2000 tried before D
DirectTagsSwapped == <<"D2000", "D">>

\* the tags of the outer loop, in its order
DirectTags == <<"D", "D2000">>

\* whether the loop applies a transform to a direct entry of tag t
UsesTransform(t, t4167, t4272) ==
    (t = "D2000" /\ t4167) \/ (t = "D" /\ t4272)

Rejected == [acc |-> FALSE, lat |-> Null, lon |-> Null]

\* the try block of one direct entry g under tag t; o is what .transform()
\* does for this entry when it is called
Candidate(g, t, o, t4167, t4272) ==
    LET flon == PyFloat(g.easting)
        flat == PyFloat(g.northing)
        useTf == UsesTransform(t, t4167, t4272)
    IN  IF ~flon.ok \/ ~flat.ok THEN Rejected
        ELSE IF useTf /\ ~o.ok THEN Rejected
        ELSE LET lon == IF useTf THEN o.lon ELSE flon.v
                 lat == IF useTf THEN o.lat ELSE flat.v
             IN  IF InBox(lat, lon)
                 THEN [acc |-> TRUE, lat |-> lat, lon |-> lon]
                 ELSE Rejected

NotFound == [found |-> FALSE, lat |-> Null, lon |-> Null, src |-> ""]

\* ScanDirect without  except Exception: pass : the first entry of the tag
\* that is not accepted ends the search of the tag
RECURSIVE ScanDirectStops(_, _, _, _, _, _)
ScanDirectStops(geo, t, i, oracle, t4167, t4272) ==
    IF i > Len(geo) THEN NotFound
    ELSE IF UpperOrEmpty(Get(geo[i].type)) # t
         THEN ScanDirectStops(geo, t, i + 1, oracle, t4167, t4272)
         ELSE LET c == Candidate(geo[i], t, oracle[i], t4167, t4272)
              IN  IF c.acc
                  THEN [found |-> TRUE, lat |-> c.lat, lon |-> c.lon, src |-> t]
                  ELSE NotFound

\* the inner loop  for g in geo_refs  under tag t, from entry i on
RECURSIVE ScanDirect(_, _, _, _, _, _)
ScanDirect(geo, t, i, oracle, t4167, t4272) ==
    IF i > Len(geo) THEN NotFound
    ELSE LET c == Candidate(geo[i], t, oracle[i], t4167, t4272)
         IN  IF UpperOrEmpty(Get(geo[i].type)) = t /\ c.acc
             THEN [found |-> TRUE, lat |-> c.lat, lon |-> c.lon, src |-> t]
             ELSE ScanDirect(geo, t, i + 1, oracle, t4167, t4272)

\* the outer loop  for t in ("D", "D2000"), from tag number k on
RECURSIVE ScanTags(_, _, _, _, _)
ScanTags(geo, k, oracle, t4167, t4272) ==
    IF k > Len(DirectTags) THEN NotFound
    ELSE LET r == ScanDirect(geo, DirectTags[k], 1, oracle, t4167, t4272)
         IN  IF r.found THEN r
             ELSE ScanTags(geo, k + 1, oracle, t4167, t4272)

UnknownResult == [lat |-> Null, lon |-> Null, src |-> "Unknown"]

\* NoPyprojResult without its own tag: the loop's generic failure
NoPyprojAsUnknown == [lat |-> Null, lon |-> Null, src |-> "Unknown"]

NoPyprojResult == [lat |-> Null, lon |-> Null, src |-> "TM2000(no-pyproj)"]

\* EmptyResult without the  if not geo_refs  test: the final return
EmptyResultAsUnknown == [lat |-> Null, lon |-> Null, src |-> "Unknown"]

EmptyResult == [lat |-> Null, lon |-> Null, src |-> "None"]

\* ScanTM with the plausibility box of the direct entries applied to the
\* transformed position as well
RECURSIVE ScanTMBoxed(_, _, _, _)
ScanTMBoxed(geo, i, oracle, t2193) ==
    IF i > Len(geo) THEN UnknownResult
    ELSE IF UpperOrEmpty(Get(geo[i].type)) # "TM2000"
         THEN ScanTMBoxed(geo, i + 1, oracle, t2193)
    ELSE IF ~t2193 THEN NoPyprojResult
    ELSE IF /\ PyFloat(geo[i].easting).ok
            /\ PyFloat(geo[i].northing).ok
            /\ oracle[i].ok
            /\ InBox(oracle[i].lat, oracle[i].lon)
         THEN [lat |-> oracle[i].lat, lon |-> oracle[i].lon, src |-> "TM2000"]
         ELSE ScanTMBoxed(geo, i + 1, oracle, t2193)

\* the second loop, over the TM2000 entries, from entry i on
RECURSIVE ScanTM(_, _, _, _)
ScanTM(geo, i, oracle, t2193) ==
    IF i > Len(geo) THEN UnknownResult
    ELSE IF UpperOrEmpty(Get(geo[i].type)) # "TM2000"
         THEN ScanTM(geo, i + 1, oracle, t2193)
    ELSE IF ~t2193 THEN NoPyprojResult
    ELSE IF /\ PyFloat(geo[i].easting).ok
            /\ PyFloat(geo[i].northing).ok
            /\ oracle[i].ok
         THEN [lat |-> oracle[i].lat, lon |-> oracle[i].lon, src |-> "TM2000"]
         ELSE ScanTM(geo, i + 1, oracle, t2193)

pick_lat_lon(geo, t2193, t4167, t4272, oracle) ==
    IF Len(geo) = 0 THEN EmptyResult
    ELSE LET d == ScanTags(geo, 1, oracle, t4167, t4272)
         IN  IF d.found THEN [lat |-> d.lat, lon |-> d.lon, src |-> d.src]
             ELSE ScanTM(geo, 1, oracle, t2193)

\* the classifiers before their calls (and in the runs that do not call them)
ClassifyIdle ==
    /\ mhz = [k |-> "null", n |-> 0, s |-> ""]
    /\ bandCode = ""
    /\ licensee = [isNull |-> TRUE, parts |-> <<>>]
    /\ carrierKey = ""

\* the page before it is loaded (and in the runs without a page)
\* the address box before anything is typed
AddrIdle ==
    /\ qAddress = <<>>
    /\ addressSuggestTimer = [pending |-> FALSE, query |-> <<>>]
    /\ addressSuggestController = 0
    /\ lookups = <<>>
    /\ addressSuggestionsCache = <<>>
    /\ lastRender = [query |-> <<>>, typed |-> <<>>, found |-> <<>>]
    /\ searches = <<>>
    /\ addressMarker = [lat |-> [k |-> "null", n |-> 0, s |-> ""],
                        lon |-> [k |-> "null", n |-> 0, s |-> ""]]

\* the flood-fill of refresh, not followed step by step
FloodIdle ==
    /\ fpc = "idle"
    /\ floodGroups = <<>>
    /\ floodUnassigned = <<>>
    /\ floodQueue = <<>>
    /\ floodClusterGroups = <<>>
    /\ floodClusters = <<>>
    /\ removals = <<>>
    /\ pushes = <<>>

\* post_page, not called
PostIdle ==
    /\ retries = 0
    /\ attempt = 0
    /\ last_err = "None"
    /\ slept = <<>>
    /\ pp = "idle"
    /\ response = [k |-> "null", n |-> 0, s |-> ""]
    /\ posts = <<>>

\* fetch_all, not called
FetchIdle ==
    /\ fa = "idle"
    /\ max_pages = 0
    /\ total_pages = 0
    /\ page = 0
    /\ results = <<>>
    /\ first = [totalPages |-> [k |-> "null", n |-> 0, s |-> ""],
                results |-> [isNull |-> TRUE, items |-> <<>>]]
    /\ calls = <<>>

\* main, not run
MainIdle ==
    /\ args = ""
    /\ json_in = "missing"
    /\ written = <<>>
    /\ mn = "idle"
    /\ exit = -1

\* the command line tool, not run
CliIdle == PostIdle /\ FetchIdle /\ MainIdle

\* the page before it is loaded, whatever the flood-fill variables hold
PageIdleButFlood ==
    /\ tz = 0
    /\ ipc = "idle"
    /\ dataFile = <<>>
    /\ DATA = <<>>
    /\ carrierBtns = {}
    /\ bandBtns = {}
    /\ carrierDisabled = {}
    /\ bandDisabled = {}
    /\ carrierSelected = {}
    /\ bandSelected = {}
    /\ qLocation = ""
    /\ qDistrict = ""
    /\ qCommFrom = [k |-> "null", n |-> 0, s |-> ""]
    /\ qCommTo = [k |-> "null", n |-> 0, s |-> ""]
    /\ qExpFrom = [k |-> "null", n |-> 0, s |-> ""]
    /\ qExpTo = [k |-> "null", n |-> 0, s |-> ""]
    /\ refreshTimer = FALSE
    /\ timeouts = 0
    /\ latestFiltered = <<>>
    /\ currentGroups = <<>>
    /\ currentClustersByGroupKey = <<>>
    /\ clicks = [facet |-> "", key |-> "", twice |-> FALSE, start |-> {}, pending |-> FALSE]
    /\ lineStart = [lat |-> [k |-> "null", n |-> 0, s |-> ""],
                    lon |-> [k |-> "null", n |-> 0, s |-> ""]]
    /\ addressLines = <<>>
    /\ AddrIdle

PageIdle == PageIdleButFlood /\ FloodIdle

(***************************************************************************)
(* What a call of .transform() can do: return a position inside the box,   *)
(* return (inf, inf) (pyproj's answer to a point it cannot project), or    *)
(* raise.                                                                  *)
(***************************************************************************)
NoTransform == [ok |-> FALSE, lon |-> Null, lat |-> Null]

TransformOutcomes ==
    { [ok |-> TRUE, lon |-> Num(1748), lat |-> Num(-413)],
      [ok |-> TRUE, lon |-> Inf(1), lat |-> Inf(1)],
      NoTransform }

\* whether pick_lat_lon can call .transform() on entry g
MayTransform(g, t2193, t4167, t4272) ==
    LET t == UpperOrEmpty(Get(g.type))
    IN  \/ t = "D" /\ t4272
        \/ t = "D2000" /\ t4167
        \/ t = "TM2000" /\ t2193

\* one outcome per entry of geo; entries never transformed get NoTransform
RECURSIVE Oracles(_, _, _, _)
Oracles(geo, t2193, t4167, t4272) ==
    IF Len(geo) = 0 THEN {<<>>}
    ELSE LET n == Len(geo)
             heads == Oracles(SubSeq(geo, 1, n - 1), t2193, t4167, t4272)
             lasts == IF MayTransform(geo[n], t2193, t4167, t4272)
                      THEN TransformOutcomes ELSE {NoTransform}
         IN  {Append(h, o) : h \in heads, o \in lasts}

(***************************************************************************)
(* Inputs of pick_lat_lon.                                                 *)
(***************************************************************************)
GeoTypes == {Str("D"), Str("d2000"), Str("TM2000"), Null}

\* (easting, northing): inside the box, on its edge, numeric texts, a text
\* that is no number, a missing northing
GeoPairs ==
    { <<Num(1747), Num(-412)>>,
      <<Num(1500), Num(-412)>>,
      <<Str("174.7"), Str("-41.2")>>,
      <<Str("abc"), Num(-412)>>,
      <<Num(1747), Missing>> }

GeoEntries ==
    {[type |-> t, easting |-> p[1], northing |-> p[2]] : t \in GeoTypes, p \in GeoPairs}

GeoLists == UNION {[1..n -> GeoEntries] : n \in 0..MaxGeo}

NoCall == [lat |-> Null, lon |-> Null, src |-> "(not called)"]

InitGeo ==
    /\ geo_refs \in GeoLists
    /\ tr2193 \in BOOLEAN
    /\ tr4167 \in BOOLEAN
    /\ tr4272 \in BOOLEAN
    /\ tf = <<>>
    /\ result = NoCall
    /\ gpc = "call"
    /\ records = <<>>
    /\ idx = 0
    /\ out = <<>>
    /\ ClassifyIdle
    /\ PageIdle
    /\ CliIdle

\* one call of pick_lat_lon on the arguments drawn by InitGeo
Resolve ==
    /\ gpc = "call"
    /\ \E o \in Oracles(geo_refs, tr2193, tr4167, tr4272) :
          /\ tf' = o
          /\ result' = pick_lat_lon(geo_refs, tr2193, tr4167, tr4272, o)
    /\ gpc' = "done"
    /\ UNCHANGED <<geo_refs, tr2193, tr4167, tr4272, normVars, classVars, uiVars, cliVars>>

NextGeo == Resolve

SpecGeo == InitGeo /\ [][NextGeo]_vars

(***************************************************************************)
(* classify_band, iso_date_or_none, normalise_records                      *)
(***************************************************************************)
\* c <= x and x <= c for a float x and a literal c
ConstLe(c, x) == (x.k = "num" /\ c <= x.n) \/ (x.k = "inf" /\ x.n > 0)
LeConst(x, c) == (x.k = "num" /\ x.n <= c) \/ (x.k = "inf" /\ x.n < 0)

BAND_DEFS ==
    << [code |-> "b28", lo |-> 703, hi |-> 803],
       [code |-> "b5", lo |-> 824, hi |-> 894],
       [code |-> "b8", lo |-> 880, hi |-> 960],
       [code |-> "b3", lo |-> 1710, hi |-> 1880],
       [code |-> "b1", lo |-> 1920, hi |-> 2170],
       [code |-> "b40", lo |-> 2300, hi |-> 2400],
       [code |-> "b7", lo |-> 2500, hi |-> 2690],
       [code |-> "n78", lo |-> 3300, hi |-> 3800],
       [code |-> "n258", lo |-> 24250, hi |-> 27500] >>

\* ScanBands with lo < mhz < hi: the end points of a range left out
RECURSIVE ScanBandsExclusive(_, _)
ScanBandsExclusive(x, k) ==
    IF k > Len(BAND_DEFS) THEN "other"
    ELSE IF ConstLt(BAND_DEFS[k].lo, x) /\ LtConst(x, BAND_DEFS[k].hi)
         THEN BAND_DEFS[k].code
         ELSE ScanBandsExclusive(x, k + 1)

\* the loop of classify_band, from table entry k on
RECURSIVE ScanBands(_, _)
ScanBands(x, k) ==
    IF k > Len(BAND_DEFS) THEN "other"
    ELSE IF ConstLe(BAND_DEFS[k].lo, x) /\ LeConst(x, BAND_DEFS[k].hi)
         THEN BAND_DEFS[k].code
         ELSE ScanBands(x, k + 1)

classify_band(x) == IF x.k = "null" THEN "unknown" ELSE ScanBands(x, 1)

(***************************************************************************)
(* carrier_key_from_licensee.  A licensee text is a sequence of name parts *)
(* (joined by blanks); no rule's substring spans two parts.  {u}~ and {A}~ *)
(* stand for the letters u and A with a macron.                            *)
(***************************************************************************)
LNull == [isNull |-> TRUE, parts |-> <<>>]

LText(parts) == [isNull |-> FALSE, parts |-> parts]

\* str.upper() of a name part
PartUpper(p) ==
    CASE p = "Two Degrees" -> "TWO DEGREES"
      [] p = "Sparks" -> "SPARKS"
      [] p = "One NZ" -> "ONE NZ"
      [] p = "Vodafone" -> "VODAFONE"
      [] p = "Rural" -> "RURAL"
      [] p = "T{u}~ {A}~tea" -> "T{U}~ {A}~TEA"
      [] p = "Tu Atea" -> "TU ATEA"
      [] p = "Uber" -> "UBER"
      [] OTHER -> p

\* pat in u, for an upper-cased part u
PartContains(u, pat) == u = pat \/ (u = "SPARKS" /\ pat = "SPARK")

\* pat in licensee.upper()
InUpper(l, pat) == \E i \in 1..Len(l.parts) : PartContains(PartUpper(l.parts[i]), pat)

\* carrier_key_from_licensee with the SPARK rule tested before TWO DEGREES
carrier_key_spark_first(l) ==
    IF l.isNull \/ Len(l.parts) = 0 THEN "unknown"
    ELSE IF InUpper(l, "SPARK") THEN "spark"
    ELSE IF InUpper(l, "TWO DEGREES") THEN "2degrees"
    ELSE IF \/ InUpper(l, "ONE NEW ZEALAND")
            \/ InUpper(l, "ONE NZ")
            \/ InUpper(l, "VODAFONE") THEN "one"
    ELSE IF InUpper(l, "RURAL") THEN "rcg"
    ELSE IF InUpper(l, "T{U}~ {A}~TEA") \/ InUpper(l, "TU ATEA") THEN "tuatea"
    ELSE IF InUpper(l, "UBER") THEN "uber"
    ELSE "unknown"

carrier_key_from_licensee(l) ==
    IF l.isNull \/ Len(l.parts) = 0 THEN "unknown"
    ELSE IF InUpper(l, "TWO DEGREES") THEN "2degrees"
    ELSE IF InUpper(l, "SPARK") THEN "spark"
    ELSE IF \/ InUpper(l, "ONE NEW ZEALAND")
            \/ InUpper(l, "ONE NZ")
            \/ InUpper(l, "VODAFONE") THEN "one"
    ELSE IF InUpper(l, "RURAL") THEN "rcg"
    ELSE IF InUpper(l, "T{U}~ {A}~TEA") \/ InUpper(l, "TU ATEA") THEN "tuatea"
    ELSE IF InUpper(l, "UBER") THEN "uber"
    ELSE "unknown"

(***************************************************************************)
(* carrierKeyFromLicensee, the classifier of the page's script.            *)
(***************************************************************************)
\* String(licensee).toUpperCase() of a name part
JsToUpperCase(p) ==
    CASE p = "Two Degrees" -> "TWO DEGREES"
      [] p = "Sparks" -> "SPARKS"
      [] p = "One NZ" -> "ONE NZ"
      [] p = "Vodafone" -> "VODAFONE"
      [] p = "Rural" -> "RURAL"
      [] p = "T{u}~ {A}~tea" -> "T{U}~ {A}~TEA"
      [] p = "Tu Atea" -> "TU ATEA"
      [] p = "Uber" -> "UBER"
      [] OTHER -> p

\* s.includes(pat)
JsIncludes(l, pat) ==
    \E i \in 1..Len(l.parts) :
        LET u == JsToUpperCase(l.parts[i])
        IN  u = pat \/ (u = "SPARKS" /\ pat = "SPARK")

\* carrierKeyFromLicensee without the ONE NZ alternative
carrierKeyNoOneNZ(l) ==
    IF l.isNull \/ Len(l.parts) = 0 THEN "unknown"
    ELSE IF JsIncludes(l, "TWO DEGREES") THEN "2degrees"
    ELSE IF JsIncludes(l, "SPARK") THEN "spark"
    ELSE IF JsIncludes(l, "ONE NEW ZEALAND") \/ JsIncludes(l, "VODAFONE") THEN "one"
    ELSE IF JsIncludes(l, "RURAL") THEN "rcg"
    ELSE IF JsIncludes(l, "T{U}~ {A}~TEA") \/ JsIncludes(l, "TU ATEA") THEN "tuatea"
    ELSE IF JsIncludes(l, "UBER") THEN "uber"
    ELSE "unknown"

carrierKeyFromLicensee(l) ==
    IF l.isNull \/ Len(l.parts) = 0 THEN "unknown"
    ELSE IF JsIncludes(l, "TWO DEGREES") THEN "2degrees"
    ELSE IF JsIncludes(l, "SPARK") THEN "spark"
    ELSE IF \/ JsIncludes(l, "ONE NEW ZEALAND")
            \/ JsIncludes(l, "ONE NZ")
            \/ JsIncludes(l, "VODAFONE") THEN "one"
    ELSE IF JsIncludes(l, "RURAL") THEN "rcg"
    ELSE IF JsIncludes(l, "T{U}~ {A}~TEA") \/ JsIncludes(l, "TU ATEA") THEN "tuatea"
    ELSE IF JsIncludes(l, "UBER") THEN "uber"
    ELSE "unknown"

iso_date_or_none(s) == IF ~Truthy(s) \/ s.k # "str" THEN Null ELSE s

\* IsRCV without .upper()
IsRCVExact(r) == Get(r.configType) = Str("RCV")

\* (r.get("configType") or "").upper() == "RCV"
IsRCV(r) == UpperOrEmpty(Get(r.configType)) = "RCV"

\* r.get("locationGeoReferences") or []
GeoOf(r) ==
    IF r.locationGeoReferences.isNull THEN <<>> ELSE r.locationGeoReferences.items

\* the try block that sets bandwidth
Bandwidth(lower, upper) ==
    IF lower.k # "null" /\ upper.k # "null"
    THEN IF PyFloat(upper).ok /\ PyFloat(lower).ok
         THEN FSub(PyFloat(upper).v, PyFloat(lower).v)
         ELSE Null
    ELSE Null

\* the try block that sets ref_mhz
RefMHz(r) ==
    IF Get(r.refFrequency).k # "null" /\ PyFloat(r.refFrequency).ok
    THEN PyFloat(r.refFrequency).v
    ELSE Null

\* the dict appended for record r (the fields copied unchanged by r.get()
\* are represented by id, licensee and configType)
NormalisedRecord(r, oracle) ==
    LET p == pick_lat_lon(GeoOf(r), tr2193, tr4167, tr4272, oracle)
        lower == Get(r.lowerBound)
        upper == Get(r.upperBound)
        ref_mhz == RefMHz(r)
    IN  [ id |-> Get(r.id),
          licensee |-> r.licensee,
          refFrequencyMHz |-> ref_mhz,
          bandCode |-> classify_band(ref_mhz),
          lowerBoundMHz |-> lower,
          upperBoundMHz |-> upper,
          bandwidthMHz |-> Bandwidth(lower, upper),
          configType |-> Get(r.configType),
          commencementDate |-> iso_date_or_none(Get(r.commencementDate)),
          expiryDate |-> iso_date_or_none(Get(r.expiryDate)),
          certificationDate |-> iso_date_or_none(Get(r.certificationDate)),
          lastUpdatedDate |-> iso_date_or_none(Get(r.lastUpdatedDate)),
          lat |-> p.lat,
          lon |-> p.lon,
          geoSource |-> p.src ]

\* Emit with out.insert(0, rec): the output in reverse order
EmitFirst(o, rec) == <<rec>> \o o

\* out.append(rec)
Emit(o, rec) == Append(o, rec)

(***************************************************************************)
(* Inputs of normalise_records: every raw record departs from BaseRecord   *)
(* in one group of fields (or, for WorstRecord, in all of them).           *)
(***************************************************************************)
GeoField(items) == [isNull |-> FALSE, items |-> items]

NullGeoField == [isNull |-> TRUE, items |-> <<>>]

GeoEntry(t, e, n) == [type |-> t, easting |-> e, northing |-> n]

BaseRecord ==
    [ id |-> Null,
      licensee |-> LText(<<"Sparks", "GROUP">>),
      configType |-> Str("TRN"),
      locationGeoReferences |->
          GeoField(<<GeoEntry(Str("D"), Num(1747), Num(-412))>>),
      lowerBound |-> Num(700),
      upperBound |-> Num(800),
      refFrequency |-> Num(750),
      commencementDate |-> Str("2024-02-29"),
      expiryDate |-> Str("2024-02-29"),
      certificationDate |-> Str("2024-02-29"),
      lastUpdatedDate |-> Str("2024-02-29") ]

ConfigRecords ==
    {[BaseRecord EXCEPT !.configType = c] : c \in {Str("RCV"), Str("rcv")}}

GeoSamples ==
    { NullGeoField,
      GeoField(<<GeoEntry(Str("D"), Num(1850), Num(-412))>>),
      GeoField(<<GeoEntry(Str("TM2000"), Num(1750000), Num(5430000))>>),
      GeoField(<<GeoEntry(Str("D"), Str("abc"), Num(-412)),
                 GeoEntry(Str("d2000"), Num(1747), Num(-412))>>) }

GeoRecords == {[BaseRecord EXCEPT !.locationGeoReferences = g] : g \in GeoSamples}

\* (lowerBound, upperBound)
BoundPairs ==
    { <<Num(800), Num(700)>>,
      <<Null, Num(800)>>,
      <<Str("abc"), Num(800)>>,
      <<Str("700"), Str("800")>> }

BoundRecords ==
    {[BaseRecord EXCEPT !.lowerBound = b[1], !.upperBound = b[2]] : b \in BoundPairs}

RefRecords ==
    {[BaseRecord EXCEPT !.refFrequency = f] : f \in {Null, Str("abc"), Str("750")}}

\* a date that does not exist, a text that is no date, a number, nothing
DateRecords ==
    { [BaseRecord EXCEPT !.commencementDate = Str("2023-02-29")],
      [BaseRecord EXCEPT !.expiryDate = Str("not a date")],
      [BaseRecord EXCEPT !.certificationDate = Num(20240229)],
      [BaseRecord EXCEPT !.lastUpdatedDate = Str(""), !.commencementDate = Null] }

LicenseeRecords ==
    { [BaseRecord EXCEPT !.licensee = LText(<<"One NZ", "GROUP">>),
                         !.refFrequency = Num(887)] }

WorstRecord ==
    [ id |-> Null,
      licensee |-> LNull,
      configType |-> Null,
      locationGeoReferences |->
          GeoField(<<GeoEntry(Null, Missing, Str("abc"))>>),
      lowerBound |-> Str("abc"),
      upperBound |-> Str("abc"),
      refFrequency |-> Str("abc"),
      commencementDate |-> Str("not a date"),
      expiryDate |-> Num(20240229),
      certificationDate |-> Null,
      lastUpdatedDate |-> Missing ]

RawRecords ==
    {BaseRecord, WorstRecord} \cup ConfigRecords \cup GeoRecords
        \cup BoundRecords \cup RefRecords \cup DateRecords \cup LicenseeRecords

\* the lists of at most maxLen raw records; the registry's id of a record
\* is unique, here its position in the list
RecordLists(maxLen) ==
    UNION { {[p \in 1..n |-> [f[p] EXCEPT !.id = Num(p)]] : f \in [1..n -> RawRecords]}
            : n \in 0..maxLen }

Init ==
    /\ records \in RecordLists(MaxRecords)
    /\ tr2193 \in BOOLEAN
    /\ tr4167 \in BOOLEAN
    /\ tr4272 \in BOOLEAN
    /\ idx = 0
    /\ out = <<>>
    /\ geo_refs = <<>>
    /\ tf = <<>>
    /\ result = NoCall
    /\ gpc = "idle"
    /\ ClassifyIdle
    /\ PageIdle
    /\ CliIdle

\* one iteration of  for r in records
NormaliseStep ==
    /\ idx < Len(records)
    /\ LET r == records[idx + 1]
       IN  IF IsRCV(r)
           THEN out' = out
           ELSE \E o \in Oracles(GeoOf(r), tr2193, tr4167, tr4272) :
                    out' = Emit(out, NormalisedRecord(r, o))
    /\ idx' = idx + 1
    /\ UNCHANGED <<records, geoVars, classVars, uiVars, cliVars>>

Next == NormaliseStep

Spec == Init /\ [][Next]_vars

(***************************************************************************)
(* Inputs and calls of the two classifiers.                                *)
(***************************************************************************)
\* the end points of every range and their neighbours, 750 and 887 (inside
\* b28; inside both b5 and b8), and the values that are no finite number
BandInputs ==
    {Num(BAND_DEFS[k].lo + d) : k \in 1..Len(BAND_DEFS), d \in {-1, 0}}
        \cup {Num(BAND_DEFS[k].hi + d) : k \in 1..Len(BAND_DEFS), d \in {0, 1}}
        \cup {Num(0), Num(750), Num(887), Null, NaN, Inf(1)}

NameParts ==
    { "Two Degrees", "Sparks", "ONE NEW ZEALAND", "One NZ", "Vodafone",
      "Rural", "T{u}~ {A}~tea", "Tu Atea", "Uber", "GROUP" }

LicenseeInputs ==
    {LNull} \cup UNION {{LText(p) : p \in [1..n -> NameParts]} : n \in 0..MaxParts}

InitClassify ==
    /\ mhz \in BandInputs
    /\ bandCode = ""
    /\ licensee \in LicenseeInputs
    /\ carrierKey = ""
    /\ geo_refs = <<>>
    /\ tr2193 = FALSE
    /\ tr4167 = FALSE
    /\ tr4272 = FALSE
    /\ tf = <<>>
    /\ result = NoCall
    /\ gpc = "idle"
    /\ records = <<>>
    /\ idx = 0
    /\ out = <<>>
    /\ PageIdle
    /\ CliIdle

\* one call of classify_band
ClassifyBand ==
    /\ bandCode = ""
    /\ bandCode' = classify_band(mhz)
    /\ UNCHANGED <<mhz, licensee, carrierKey, geoVars, normVars, uiVars, cliVars>>

\* one call of carrier_key_from_licensee
ClassifyCarrier ==
    /\ carrierKey = ""
    /\ carrierKey' = carrier_key_from_licensee(licensee)
    /\ UNCHANGED <<mhz, bandCode, licensee, geoVars, normVars, uiVars, cliVars>>

NextClassify == ClassifyBand \/ ClassifyCarrier

SpecClassify == InitClassify /\ [][NextClassify]_vars

(***************************************************************************)
(* The page's script: filters, facet buttons and refresh.                  *)
(*                                                                         *)
(* A date text "YYYY-MM-DD" is DayText(d) for the day number d; an instant *)
(* is a number of hours, hour 0 being 00:00 UTC of day 0.  A Date object   *)
(* or null is [isNull, t].                                                 *)
(***************************************************************************)
DayText(d) == [k |-> "str", n |-> d, s |-> "YYYY-MM-DD"]

NoDate == [isNull |-> TRUE, t |-> 0]

DateAt(t) == [isNull |-> FALSE, t |-> t]

\* new Date(iso) for a text without a time part: midnight UTC
\* (an invalid Date, isNaN(d.getTime()), for any other text of the model)
ParseUTC(v) == IF v.s = "YYYY-MM-DD" THEN DateAt(24 * v.n) ELSE NoDate

\* new Date(text + "T00:00:00"): midnight in the browser's zone
ParseLocal(v, zone) == IF v.s = "YYYY-MM-DD" THEN DateAt(24 * v.n - zone) ELSE NoDate

parseDate(value, zone) == IF ~Truthy(value) THEN NoDate ELSE ParseLocal(value, zone)

parseISO(iso) == IF ~Truthy(iso) THEN NoDate ELSE ParseUTC(iso)

\* String.prototype.trim().toLowerCase() of the texts of the model
TrimLower(s) ==
    CASE s = "Wel" -> "wel"
      [] s = "Wellington CBD" -> "wellington cbd"
      [] s = "Auckland" -> "auckland"
      [] OTHER -> s

\* hay.includes(needle), both in lower case
Includes(hay, needle) ==
    \/ needle = ""
    \/ hay = needle
    \/ (hay = "wellington cbd" /\ needle = "wel")

getFilters(loc, district, commFrom, commTo, expFrom, expTo, zone) ==
    [ locationText |-> TrimLower(loc),
      district |-> district,
      commFrom |-> parseDate(commFrom, zone),
      commTo |-> parseDate(commTo, zone),
      expFrom |-> parseDate(expFrom, zone),
      expTo |-> parseDate(expTo, zone) ]

passesBaseFilters(r, f, zone) ==
    LET loc == IF Truthy(r.location) THEN TrimLower(r.location.s) ELSE ""
        c == parseISO(r.commencementDate)
        e == IF Truthy(r.expiryDate) THEN ParseLocal(r.expiryDate, zone) ELSE NoDate
    IN  /\ f.locationText # "" => Includes(loc, f.locationText)
        /\ f.district # "" => f.district \in r.locationDistrictCodes
        /\ ~((~f.commFrom.isNull \/ ~f.commTo.isNull) /\ c.isNull)
        /\ ~(~f.commFrom.isNull /\ c.t < f.commFrom.t)
        /\ ~(~f.commTo.isNull /\ c.t > f.commTo.t)
        /\ ~((~f.expFrom.isNull \/ ~f.expTo.isNull) /\ e.isNull)
        /\ ~(~f.expFrom.isNull /\ e.t < f.expFrom.t)
        /\ ~(~f.expTo.isNull /\ e.t > f.expTo.t)

\* r.carrierKey || "unknown"
CarrierOf(r) == IF r.carrierKey = "" THEN "unknown" ELSE r.carrierKey

\* r.bandCode || "unknown"
BandOf(r) == IF Truthy(r.bandCode) THEN r.bandCode.s ELSE "unknown"

Range(s) == {s[i] : i \in 1..Len(s)}

\* Array.prototype.filter
RECURSIVE Filter(_, _)
Filter(s, keep) ==
    IF s = <<>> THEN <<>>
    ELSE (IF Head(s) \in keep THEN <<Head(s)>> ELSE <<>>) \o Filter(Tail(s), keep)

\* the keys of uniqueCarriers()
uniqueCarriers(data) == {CarrierOf(r) : r \in Range(data)} \ {"uber"}

\* CarrierButtons with a button for every key of uniqueCarriers
CarrierButtonsAll(data) == uniqueCarriers(data)

\* the buttons buildCarrierUI makes: the primary and secondary keys present
CarrierButtons(data) ==
    uniqueCarriers(data) \cap {"2degrees", "one", "spark", "rcg", "tuatea"}

\* the buttons buildBandUI makes
BandButtons(data) ==
    LET present == {BandOf(r) : r \in Range(data)}
    IN  ({BAND_DEFS[k].code : k \in 1..Len(BAND_DEFS)} \cap present)
            \cup (present \cap {"unknown", "other"})

\* availCarriers without the test of the band selection
availCarriersAnyBand(baseFiltered, bs) ==
    {CarrierOf(r) : r \in Range(baseFiltered)} \ {"uber"}

\* updateAvailability: availCarriers and availBands
availCarriers(baseFiltered, bs) ==
    {CarrierOf(r) : r \in {x \in Range(baseFiltered) : bs = {} \/ BandOf(x) \in bs}}
        \ {"uber"}

availBands(baseFiltered, cs) ==
    {BandOf(r) : r \in {x \in Range(baseFiltered) : cs = {} \/ CarrierOf(x) \in cs}}

\* DisabledButtons without the exemption of the selected buttons
DisabledIgnoringSelection(btns, avail, selected) == {b \in btns : b \notin avail}

\* updateAvailability: the buttons it leaves with disabled = true
DisabledButtons(btns, avail, selected) ==
    {b \in btns : b \notin avail /\ b \notin selected}

\* SelectionFilter by the carrier selection alone
SelectionFilterCarrierOnly(baseFiltered, cs, bs) ==
    Filter(baseFiltered,
           {r \in Range(baseFiltered) : ~(cs # {} /\ CarrierOf(r) \notin cs)})

\* refresh: the filter by the two selections
SelectionFilter(baseFiltered, cs, bs) ==
    Filter(baseFiltered,
           {r \in Range(baseFiltered) :
               /\ ~(cs # {} /\ CarrierOf(r) \notin cs)
               /\ ~(bs # {} /\ BandOf(r) \notin bs)})

(***************************************************************************)
(* refresh: MarkerGroups and Clusters.  A coordinate is a whole number of  *)
(* 1e-7 degrees; all records of the model lie on one meridian, where the   *)
(* haversine distance of two points is R times their difference of         *)
(* latitude in radians: 0.01112 m for each 1e-7 degree.                    *)
(***************************************************************************)
\* Number(x).toFixed(6), as a whole number of 1e-7 degrees (no coordinate of
\* the model lies half way between two roundings)
ToFixed6(x) == ((x + 5) \div 10) * 10

\* the key of the group of record r
GroupKey(r) == <<CarrierOf(r), ToFixed6(r.lat.n), ToFixed6(r.lon.n)>>

\* filtered.filter(r => r.lat && r.lon)
WithCoords(filtered) ==
    Filter(filtered,
           {r \in Range(filtered) :
               /\ r.lat.k = "num" /\ r.lat.n # 0
               /\ r.lon.k = "num" /\ r.lon.n # 0})

\* AddToGroups that makes a group of every record
RECURSIVE AddUnmerged(_, _)
AddUnmerged(groups, rs) ==
    IF rs = <<>> THEN groups
    ELSE LET r == Head(rs)
         IN  AddUnmerged(Append(groups,
                                [ key |-> GroupKey(r), carrierKey |-> CarrierOf(r),
                                  lat |-> r.lat.n, lon |-> r.lon.n,
                                  items |-> <<r>> ]),
                         Tail(rs))

\* the forEach that fills the Map groups, from the groups made so far
RECURSIVE AddToGroups(_, _)
AddToGroups(groups, rs) ==
    IF rs = <<>> THEN groups
    ELSE LET r == Head(rs)
             key == GroupKey(r)
             at == {i \in 1..Len(groups) : groups[i].key = key}
         IN  IF at = {}
             THEN AddToGroups(Append(groups,
                                     [ key |-> key, carrierKey |-> CarrierOf(r),
                                       lat |-> r.lat.n, lon |-> r.lon.n,
                                       items |-> <<r>> ]),
                              Tail(rs))
             ELSE LET i == CHOOSE j \in at : TRUE
                  IN  AddToGroups([groups EXCEPT ![i].items = Append(@, r)], Tail(rs))

\* distanceMeters, in millionths of a metre, for two points of one meridian
distanceMeters(lat1, lon1, lat2, lon2) ==
    (IF lat1 < lat2 THEN lat2 - lat1 ELSE lat1 - lat2) * 11120

\* d <= 50
Near(g, h) == distanceMeters(g.lat, g.lon, h.lat, h.lon) <= 50 * 1000000

\* the sort of carrierGroups: localeCompare of the friendly names
LabelRank(ck) ==
    CASE ck = "2degrees" -> 1
      [] ck = "one" -> 2
      [] ck = "rcg" -> 3
      [] ck = "spark" -> 4
      [] ck = "tuatea" -> 5
      [] OTHER -> 6

RECURSIVE FlatItems(_)
FlatItems(groups) ==
    IF groups = <<>> THEN <<>> ELSE Head(groups).items \o FlatItems(Tail(groups))

RECURSIVE CarrierGroupsFrom(_, _)
CarrierGroupsFrom(clusterGroups, rank) ==
    IF rank > 6 THEN <<>>
    ELSE LET mine == SelectSeq(clusterGroups, LAMBDA g : LabelRank(g.carrierKey) = rank)
         IN  (IF mine = <<>> THEN <<>>
              ELSE <<[carrierKey |-> mine[1].carrierKey, items |-> FlatItems(mine)]>>)
                 \o CarrierGroupsFrom(clusterGroups, rank + 1)

\* the cluster object made of clusterGroups
MakeCluster(clusterGroups) ==
    [ groups |-> clusterGroups,
      items |-> FlatItems(clusterGroups),
      carrierGroups |-> CarrierGroupsFrom(clusterGroups, 1) ]

\* GrowCluster taking the groups near the seed only: a group near one of
\* those, and not near the seed, is left out
GrowSeedOnly(queue, unassigned, clusterGroups) ==
    LET current == queue[Len(queue)]
        near == SelectSeq(unassigned, LAMBDA c : Near(current, c))
        far == SelectSeq(unassigned, LAMBDA c : ~Near(current, c))
    IN  [groups |-> <<current>> \o near, unassigned |-> far]

\* GrowCluster taking every unassigned group, near or far
GrowAll(queue, unassigned, clusterGroups) ==
    [groups |-> queue \o unassigned, unassigned |-> <<>>]

\* the loop  while (queue.length): queue.pop(), then every unassigned group
\* within 50 m of it leaves unassigned and joins the queue
RECURSIVE GrowCluster(_, _, _)
GrowCluster(queue, unassigned, clusterGroups) ==
    IF queue = <<>> THEN [groups |-> clusterGroups, unassigned |-> unassigned]
    ELSE LET current == queue[Len(queue)]
             near == SelectSeq(unassigned, LAMBDA c : Near(current, c))
             far == SelectSeq(unassigned, LAMBDA c : ~Near(current, c))
         IN  GrowCluster(SubSeq(queue, 1, Len(queue) - 1) \o near, far,
                         Append(clusterGroups, current))

\* the loop  while (unassigned.size > 0): the clusters, in the order made
RECURSIVE FloodFill(_)
FloodFill(unassigned) ==
    IF unassigned = <<>> THEN <<>>
    ELSE LET grown == GrowCluster(<<Head(unassigned)>>, Tail(unassigned), <<>>)
         IN  <<MakeCluster(grown.groups)>> \o FloodFill(grown.unassigned)

\* the Map clusterByGroupKey
ClusterByGroupKey(groupList) ==
    LET clusters == FloodFill(groupList)
    IN  [ key \in {groupList[i].key : i \in 1..Len(groupList)} |->
            LET c == CHOOSE j \in 1..Len(clusters) :
                        \E i \in 1..Len(clusters[j].groups) :
                            clusters[j].groups[i].key = key
            IN  clusters[c] ]

\* a position that is no position
NoPoint == [lat |-> Null, lon |-> Null]

\* clearAddressLines()
clearAddressLines ==
    /\ lineStart' = NoPoint
    /\ addressLines' = <<>>

\* refresh without its clearAddressLines()
refreshKeepsLines(cs, bs, f) ==
    LET baseFiltered == Filter(DATA, {r \in Range(DATA) : passesBaseFilters(r, f, tz)})
        filtered == SelectionFilter(baseFiltered, cs, bs)
        groups == AddToGroups(<<>>, WithCoords(filtered))
    IN  /\ carrierDisabled' =
              DisabledButtons(carrierBtns, availCarriers(baseFiltered, bs), cs)
        /\ bandDisabled' =
              DisabledButtons(bandBtns, availBands(baseFiltered, cs), bs)
        /\ latestFiltered' = filtered
        /\ currentGroups' = groups
        /\ currentClustersByGroupKey' = ClusterByGroupKey(groups)
        /\ UNCHANGED <<lineStart, addressLines>>

\* refresh(), run with the selections cs and bs and the filters f
refresh(cs, bs, f) ==
    LET baseFiltered == Filter(DATA, {r \in Range(DATA) : passesBaseFilters(r, f, tz)})
        filtered == SelectionFilter(baseFiltered, cs, bs)
        groups == AddToGroups(<<>>, WithCoords(filtered))
    IN  /\ carrierDisabled' =
              DisabledButtons(carrierBtns, availCarriers(baseFiltered, bs), cs)
        /\ bandDisabled' =
              DisabledButtons(bandBtns, availBands(baseFiltered, cs), bs)
        /\ latestFiltered' = filtered
        /\ currentGroups' = groups
        /\ currentClustersByGroupKey' = ClusterByGroupKey(groups)
        /\ clearAddressLines

\* refreshImmediate that only sets the timer
refreshDeferred(cs, bs, f) ==
    /\ refreshTimer' = TRUE
    /\ timeouts' = IF refreshTimer THEN timeouts ELSE timeouts + 1
    /\ UNCHANGED viewVars

\* refreshImmediate(), run with the selections cs and bs and the filters f
refreshImmediate(cs, bs, f) ==
    /\ timeouts' = IF refreshTimer THEN timeouts - 1 ELSE timeouts
    /\ refreshTimer' = FALSE
    /\ refresh(cs, bs, f)

\* Number.isFinite
IsFinite(v) == v.k = "num"

\* the forEach of findNearest: best and bestDist after the records rs
\* (best = Null stands for best = null, bestDist = Infinity); distances are
\* squares of 1e-7 degrees
RECURSIVE Nearest(_, _, _)
Nearest(rs, at, best) ==
    IF rs = <<>> THEN best
    ELSE LET r == Head(rs)
             dLat == r.lat.n - at.lat.n
             dLon == r.lon.n - at.lon.n
             dist == (dLat * dLat) + (dLon * dLon)
         IN  Nearest(Tail(rs), at,
                     IF best = Null \/ dist < best.distance
                     THEN [record |-> r, distance |-> dist]
                     ELSE best)

\* findNearest(carrierKey) of a drawNearestCarrierLines(at.lat, at.lon)
findNearest(key, at) ==
    LET cands == WithCoords(latestFiltered)
    IN  Nearest(Filter(cands, {r \in Range(cands) : r.carrierKey = key}), at, Null)

primaryCarriers == <<"2degrees", "one", "spark">>

\* primaryCarriers.map(findNearest).filter(item => item.result), from the
\* i-th primary carrier on
RECURSIVE primaryNearest(_, _)
primaryNearest(i, at) ==
    IF i > Len(primaryCarriers) THEN <<>>
    ELSE LET res == findNearest(primaryCarriers[i], at)
         IN  (IF res = Null THEN <<>> ELSE <<[key |-> primaryCarriers[i], result |-> res]>>)
                 \o primaryNearest(i + 1, at)

\* the reduce over primaryNearest
RECURSIVE closestPrimary(_, _)
closestPrimary(items, best) ==
    IF items = <<>> THEN best
    ELSE closestPrimary(Tail(items),
                        IF best = Null \/ Head(items).result.distance < best.distance
                        THEN Head(items).result ELSE best)

\* the polyline to the record of a findNearest result
LineTo(key, res) == [key |-> key, end |-> res.record]

\* drawNearestCarrierLines that draws the primary lines beside the rcg line
LinesWithPrimaries(at) ==
    LET prim == primaryNearest(1, at)
        rcgNearest == findNearest("rcg", at)
    IN  (IF rcgNearest = Null THEN <<>> ELSE <<LineTo("rcg", rcgNearest)>>)
            \o [i \in 1..Len(prim) |-> LineTo(prim[i].key, prim[i].result)]

\* drawNearestCarrierLines that draws the rcg line alone on a tie as well
LinesRcgOnTie(at) ==
    LET prim == primaryNearest(1, at)
        rcgNearest == findNearest("rcg", at)
        closest == closestPrimary(prim, Null)
    IN  IF rcgNearest # Null /\ (closest = Null \/ rcgNearest.distance <= closest.distance)
        THEN <<LineTo("rcg", rcgNearest)>>
        ELSE [i \in 1..Len(prim) |-> LineTo(prim[i].key, prim[i].result)]

\* the lines drawNearestCarrierLines(at.lat, at.lon) adds to addressLineLayer
LinesFor(at) ==
    LET prim == primaryNearest(1, at)
        rcgNearest == findNearest("rcg", at)
        closest == closestPrimary(prim, Null)
    IN  IF rcgNearest # Null /\ (closest = Null \/ rcgNearest.distance < closest.distance)
        THEN <<LineTo("rcg", rcgNearest)>>
        ELSE [i \in 1..Len(prim) |-> LineTo(prim[i].key, prim[i].result)]

\* drawNearestCarrierLines(at.lat, at.lon)
drawNearestCarrierLines(at) ==
    IF ~IsFinite(at.lat) \/ ~IsFinite(at.lon)
    THEN UNCHANGED <<lineStart, addressLines>>
    ELSE /\ lineStart' = at
         /\ addressLines' = LinesFor(at)

\* String.prototype.trim of a sequence of characters
RECURSIVE TrimStart(_)
TrimStart(s) == IF s # <<>> /\ Head(s) = " " THEN TrimStart(Tail(s)) ELSE s

RECURSIVE TrimEnd(_)
TrimEnd(s) ==
    IF s # <<>> /\ s[Len(s)] = " " THEN TrimEnd(SubSeq(s, 1, Len(s) - 1)) ELSE s

Trim(s) == TrimEnd(TrimStart(s))

NoTimer == [pending |-> FALSE, query |-> <<>>]

\* hideAddressSuggestions()
hideAddressSuggestions == addressSuggestionsCache' = <<>>

\* renderAddressSuggestions(found) for the results of the lookup of query
renderAddressSuggestions(query, found) ==
    /\ addressSuggestionsCache' = found
    /\ lastRender' = [query |-> query, typed |-> Trim(qAddress), found |-> found]

\* controller.abort(): a fetch in flight rejects with AbortError, a settled
\* one stays as it is
Abort(ls, id) ==
    IF id # 0 /\ ls[id].state = "flight" THEN [ls EXCEPT ![id].state = "aborted"] ELSE ls

\* fetchAddressSuggestions that aborts no earlier lookup
StartLookupNoAbort(ls, id, query) == Append(ls, [query |-> query, state |-> "flight"])

\* fetchAddressSuggestions(query) up to its await: the lookups after it
StartLookup(ls, id, query) ==
    Append(Abort(ls, id), [query |-> query, state |-> "flight"])

\* ToggleSelection that never removes an option
ToggleAddOnly(selected, key) == selected \cup {key}

\* ToggleSelection that replaces the set when an absent option is clicked
ToggleReplace(selected, key) ==
    IF key \in selected THEN selected \ {key} ELSE {key}

\* ToggleSelection that clears the set when a selected option is clicked
ToggleOrClear(selected, key) ==
    IF selected = {} THEN {key}
    ELSE IF key \in selected THEN {} ELSE selected \cup {key}

\* the click handler's update of its Set
ToggleSelection(selected, key) ==
    IF selected = {} THEN selected \cup {key}
    ELSE IF key \in selected THEN selected \ {key} ELSE selected \cup {key}

\* history of the clicks: a second click in a row on the same button keeps
\* the set the pair of clicks started from; pending tells whether the click
\* found the debounce timer set
NoClicks == [facet |-> "", key |-> "", twice |-> FALSE, start |-> {}, pending |-> FALSE]

Clicked(facet, key, selected) ==
    IF clicks.facet = facet /\ clicks.key = key /\ ~clicks.twice
    THEN [clicks EXCEPT !.twice = TRUE, !.pending = refreshTimer]
    ELSE [facet |-> facet, key |-> key, twice |-> FALSE, start |-> selected,
          pending |-> refreshTimer]

CurrentFilters == getFilters(qLocation, qDistrict, qCommFrom, qCommTo, qExpFrom, qExpTo, tz)

(***************************************************************************)
(* Inputs of the page: the records of the JSON file and what the user may  *)
(* type into the filter inputs.                                            *)
(***************************************************************************)
PageRecord(id, l, band, loc, districts, comm, exp, lat, lon) ==
    [ id |-> id, licensee |-> l, carrierKey |-> "", bandCode |-> band,
      location |-> loc, locationDistrictCodes |-> districts,
      commencementDate |-> comm, expiryDate |-> exp, lat |-> lat, lon |-> lon ]

\* latitude 41.2 S plus d times 1e-7 degrees; 3600 of them are 40 m
Lat(d) == Num(d - 412000000)

\* longitude 174.7 E
Lon == Num(1747000000)

DataPool ==
    << PageRecord(1, LText(<<"Sparks", "GROUP">>), Str("b28"), Str("Wellington CBD"),
                  {"WN"}, DayText(10), DayText(20), Lat(0), Lon),
       PageRecord(2, LText(<<"Sparks">>), Str("b3"), Str("Auckland"),
                  {"AK"}, DayText(12), DayText(30), Lat(3600), Lon),
       PageRecord(3, LText(<<"One NZ">>), Str("b28"), Str("Auckland"),
                  {"AK", "WN"}, Null, DayText(25), Lat(8096), Lon),
       PageRecord(4, LText(<<"GROUP">>), Null, Null,
                  {}, Str("not a date"), Null, Null, Null),
       PageRecord(5, LText(<<"Uber">>), Str("b3"), Str("Wellington CBD"),
                  {"WN"}, DayText(12), DayText(25), Lat(0), Lon) >>

\* the JSON files: at most MaxData records of the pool, in its order
DataFiles ==
    {Filter(DataPool, S) : S \in {T \in SUBSET Range(DataPool) : Cardinality(T) <= MaxData}}

\* New Zealand standard time
TimeZones == {12}

LocationTexts == {"", "Wel"}

DistrictValues == {"", "AK"}

CommDates == {Null, DayText(12)}

ExpDates == {Null, DayText(25)}

\* Decorate without the filter on the licensee
RECURSIVE DecorateAll(_)
DecorateAll(file) ==
    IF file = <<>> THEN <<>>
    ELSE <<[Head(file) EXCEPT !.carrierKey = carrierKeyFromLicensee(Head(file).licensee)]>>
             \o DecorateAll(Tail(file))

\* init(): drop the Uber records and decorate the rest
RECURSIVE Decorate(_)
Decorate(file) ==
    IF file = <<>> THEN <<>>
    ELSE LET r == Head(file)
             ck == carrierKeyFromLicensee(r.licensee)
         IN  (IF ck # "uber" THEN <<[r EXCEPT !.carrierKey = ck]>> ELSE <<>>)
                 \o Decorate(Tail(file))

\* the page after init(): buttons built, nothing selected, inputs empty, and
\* the first refresh() done
InitPageOf(files) ==
    /\ tz \in TimeZones
    /\ ipc = "ready"
    /\ dataFile = <<>>
    /\ \E file \in files : DATA = Decorate(file)
    /\ carrierBtns = CarrierButtons(DATA)
    /\ bandBtns = BandButtons(DATA)
    /\ carrierSelected = {}
    /\ bandSelected = {}
    /\ qLocation = ""
    /\ qDistrict = ""
    /\ qCommFrom = Null
    /\ qCommTo = Null
    /\ qExpFrom = Null
    /\ qExpTo = Null
    /\ refreshTimer = FALSE
    /\ timeouts = 0
    /\ clicks = NoClicks
    /\ lineStart = NoPoint
    /\ addressLines = <<>>
    /\ AddrIdle
    /\ FloodIdle
    /\ LET f == getFilters("", "", Null, Null, Null, Null, tz)
           baseFiltered == Filter(DATA, {r \in Range(DATA) : passesBaseFilters(r, f, tz)})
       IN  /\ carrierDisabled = DisabledButtons(carrierBtns, availCarriers(baseFiltered, {}), {})
           /\ bandDisabled = DisabledButtons(bandBtns, availBands(baseFiltered, {}), {})
           /\ latestFiltered = SelectionFilter(baseFiltered, {}, {})
           /\ currentGroups = AddToGroups(<<>>, WithCoords(latestFiltered))
           /\ currentClustersByGroupKey = ClusterByGroupKey(currentGroups)

InitPage == InitPageOf(DataFiles)

InitUI ==
    /\ InitPage
    /\ geo_refs = <<>>
    /\ tr2193 = FALSE
    /\ tr4167 = FALSE
    /\ tr4272 = FALSE
    /\ tf = <<>>
    /\ result = NoCall
    /\ gpc = "idle"
    /\ records = <<>>
    /\ idx = 0
    /\ out = <<>>
    /\ ClassifyIdle
    /\ CliIdle

\* pick_lat_lon, normalise_records and the classifiers, not called
PythonIdleOnly ==
    /\ geo_refs = <<>>
    /\ tr2193 = FALSE
    /\ tr4167 = FALSE
    /\ tr4272 = FALSE
    /\ tf = <<>>
    /\ result = NoCall
    /\ gpc = "idle"
    /\ records = <<>>
    /\ idx = 0
    /\ out = <<>>
    /\ ClassifyIdle

\* the Python functions of the file, none of them called
PythonIdle == PythonIdleOnly /\ CliIdle

\* records of one place: two of one carrier whose latitudes round to the same
\* sixth decimal, one of another carrier at the very same point, one just
\* under 50 m from the second and just over 50 m from the first, and one
\* without coordinates
GroupPool ==
    << PageRecord(1, LText(<<"Sparks", "GROUP">>), Str("b28"), Str("Auckland"),
                  {"AK"}, DayText(12), DayText(25), Lat(0), Lon),
       PageRecord(2, LText(<<"Sparks">>), Str("b3"), Str("Auckland"),
                  {"AK"}, DayText(12), DayText(25), Lat(4), Lon),
       PageRecord(3, LText(<<"One NZ">>), Str("b28"), Str("Auckland"),
                  {"AK"}, DayText(12), DayText(25), Lat(4498), Lon),
       PageRecord(4, LText(<<"One NZ">>), Str("b3"), Str("Auckland"),
                  {"AK"}, DayText(12), DayText(25), Lat(0), Lon),
       PageRecord(5, LText(<<"GROUP">>), Null, Str("Auckland"),
                  {"AK"}, DayText(12), DayText(25), Null, Null) >>

GroupFiles ==
    {Filter(GroupPool, S) : S \in {T \in SUBSET Range(GroupPool) : Cardinality(T) <= MaxData}}

InitGroups ==
    /\ InitPageOf(GroupFiles)
    /\ PythonIdle

\* latitude 41.2 S and longitude 174.7 E plus x and y times 1e-7 degrees
At(x, y) == [lat |-> Num(x - 412000000), lon |-> Num(y + 1747000000)]

NearRecord(id, name, band, at) ==
    PageRecord(id, LText(<<name, "GROUP">>), Str(band), Str("Auckland"), {"AK"},
               DayText(12), DayText(25), at.lat, at.lon)

\* records around At(0, 0): two of spark and one of rcg at the same distance
\* from it, one of One NZ further away and one of 2degrees further still,
\* and one of rcg without coordinates
NearestPool ==
    << NearRecord(1, "Sparks", "b28", At(300, 400)),
       NearRecord(2, "Sparks", "b3", At(500, 0)),
       NearRecord(3, "One NZ", "b28", At(0, 600)),
       NearRecord(4, "Rural", "b28", At(0, 500)),
       NearRecord(5, "Two Degrees", "b3", At(1000, 0)),
       NearRecord(6, "Rural", "b3", NoPoint) >>

NearestFiles ==
    {Filter(NearestPool, S) : S \in {T \in SUBSET Range(NearestPool) : Cardinality(T) <= MaxData}}

\* where an address may be found: At(0, 450) is nearer to the rcg record than
\* to any other; the last is what Number() makes of a text that is no number
AddressPoints == {At(0, 0), At(0, 450), [lat |-> NaN, lon |-> Num(1747000000)]}

InitNearest ==
    /\ InitPageOf(NearestFiles)
    /\ PythonIdle

\* the click handler of the carrier button key up to its refreshImmediate
\* (a disabled button gets no click)
ToggleCarrier(key) ==
    /\ key \in carrierBtns \ carrierDisabled
    /\ carrierSelected' = ToggleSelection(carrierSelected, key)

\* the click handler of the band button code up to its refreshImmediate
ToggleBand(code) ==
    /\ code \in bandBtns \ bandDisabled
    /\ bandSelected' = ToggleSelection(bandSelected, code)

\* click on the carrier button key
ClickCarrier(key) ==
    /\ ToggleCarrier(key)
    /\ refreshImmediate(carrierSelected', bandSelected, CurrentFilters)
    /\ clicks' = Clicked("carrier", key, carrierSelected)
    /\ UNCHANGED <<bandSelected, inputVars, pageVars, geoVars, normVars, classVars, addrVars, cliVars, floodVars>>

\* click on the band button code
ClickBand(code) ==
    /\ ToggleBand(code)
    /\ refreshImmediate(carrierSelected, bandSelected', CurrentFilters)
    /\ clicks' = Clicked("band", code, bandSelected)
    /\ UNCHANGED <<carrierSelected, inputVars, pageVars, geoVars, normVars, classVars, addrVars, cliVars, floodVars>>

\* refreshDebouncedLocation that clears the pending timeout and sets none
DebounceDrops ==
    /\ timeouts' = IF refreshTimer THEN timeouts - 1 ELSE timeouts
    /\ refreshTimer' = FALSE

\* refreshDebouncedLocation(): clearTimeout of the pending timeout, then a
\* new timeout of 120 ms
refreshDebouncedLocation ==
    /\ timeouts' = (IF refreshTimer THEN timeouts - 1 ELSE timeouts) + 1
    /\ refreshTimer' = TRUE

\* input event of qLocation: refreshDebouncedLocation
LocationInput(text) ==
    /\ text # qLocation
    /\ qLocation' = text
    /\ refreshDebouncedLocation
    /\ clicks' = NoClicks
    /\ UNCHANGED <<qDistrict, qCommFrom, qCommTo, qExpFrom, qExpTo>>
    /\ UNCHANGED <<selVars, viewVars, pageVars, geoVars, normVars, classVars, addrVars, cliVars, floodVars>>

\* the debounce timer fires
TimerFires ==
    /\ timeouts > 0
    /\ timeouts' = timeouts - 1
    /\ refreshTimer' = FALSE
    /\ refresh(carrierSelected, bandSelected, CurrentFilters)
    /\ clicks' = NoClicks
    /\ UNCHANGED <<selVars, inputVars, pageVars, geoVars, normVars, classVars, addrVars, cliVars, floodVars>>

\* change event of qLocation: refreshImmediate
LocationChange ==
    /\ refreshImmediate(carrierSelected, bandSelected, CurrentFilters)
    /\ clicks' = NoClicks
    /\ UNCHANGED <<selVars, inputVars, pageVars, geoVars, normVars, classVars, addrVars, cliVars, floodVars>>

\* input or change event of one of the other five inputs, which takes the
\* values d, cf, ct, ef, et (one of them new): refreshImmediate.  The user
\* fills at most MaxDateFilters of the four date inputs at a time.
ScalarInput(d, cf, ct, ef, et) ==
    /\ Cardinality({i \in 1..4 : <<cf, ct, ef, et>>[i] # Null}) <= MaxDateFilters
    /\ Cardinality({i \in 1..5 :
            <<d, cf, ct, ef, et>>[i]
                # <<qDistrict, qCommFrom, qCommTo, qExpFrom, qExpTo>>[i]}) = 1
    /\ qDistrict' = d
    /\ qCommFrom' = cf
    /\ qCommTo' = ct
    /\ qExpFrom' = ef
    /\ qExpTo' = et
    /\ refreshImmediate(carrierSelected, bandSelected,
                        getFilters(qLocation, d, cf, ct, ef, et, tz))
    /\ clicks' = NoClicks
    /\ UNCHANGED <<qLocation, selVars, pageVars, geoVars, normVars, classVars, addrVars, cliVars, floodVars>>

NextUI ==
    \/ \E key \in carrierBtns : ClickCarrier(key)
    \/ \E code \in bandBtns : ClickBand(code)
    \/ \E text \in LocationTexts : LocationInput(text)
    \/ TimerFires
    \/ LocationChange
    \/ \E d \in DistrictValues, cf \in CommDates, ct \in CommDates,
          ef \in ExpDates, et \in ExpDates : ScalarInput(d, cf, ct, ef, et)

SpecUI == InitUI /\ [][NextUI]_vars

\* an address is found at the position at: the calls of
\* drawNearestCarrierLines in handleAddressSearch, in the click listener of
\* the suggestions and in geolocateUser
AddressFound(at) ==
    /\ drawNearestCarrierLines(at)
    /\ clicks' = NoClicks
    /\ UNCHANGED <<carrierDisabled, bandDisabled, latestFiltered, currentGroups,
                   currentClustersByGroupKey>>
    /\ UNCHANGED <<pageVars, selVars, inputVars, refreshTimer, timeouts, addrVars>>
    /\ UNCHANGED <<geoVars, normVars, classVars, cliVars, floodVars>>

\* the page on the records of NearestPool: the facet buttons and the
\* positions of addresses
NextNearest ==
    \/ \E key \in carrierBtns : ClickCarrier(key)
    \/ \E code \in bandBtns : ClickBand(code)
    \/ \E at \in AddressPoints : AddressFound(at)

SpecNearest == InitNearest /\ [][NextNearest]_vars

\* the same page with the location box: filter changes, debounced or not,
\* between the answers of the geocoder and of the device's location
NextLines ==
    \/ \E key \in carrierBtns : ClickCarrier(key)
    \/ \E code \in bandBtns : ClickBand(code)
    \/ \E text \in LocationTexts : LocationInput(text)
    \/ TimerFires
    \/ \E at \in AddressPoints : AddressFound(at)

SpecLines == InitNearest /\ [][NextLines]_vars

\* what may be typed into the address box
AddressTexts ==
    { <<>>, <<"a", "b">>, <<"a", "b", "c">>, <<"a", "b", "c", " ">>,
      <<"a", "b", "c", "d">> }

\* the results of the search service for a query: some places, or none
ResultsFor(query) == {<<>>, <<[display_name |-> query]>>}

\* the page on an empty file
InitAddr ==
    /\ InitPageOf({<<>>})
    /\ PythonIdle

\* input event of qAddress: the box now holds text
AddressInput(text) ==
    /\ text # qAddress
    /\ qAddress' = text
    /\ clearAddressLines
    /\ IF Len(Trim(text)) < 3
       THEN /\ addressSuggestTimer' = NoTimer
            /\ hideAddressSuggestions
       ELSE /\ addressSuggestTimer' = [pending |-> TRUE, query |-> Trim(text)]
            /\ UNCHANGED addressSuggestionsCache
    /\ clicks' = NoClicks
    /\ UNCHANGED <<addressSuggestController, lookups, lastRender>>
    /\ UNCHANGED <<carrierDisabled, bandDisabled, latestFiltered, currentGroups,
                   currentClustersByGroupKey>>
    /\ UNCHANGED <<pageVars, selVars, inputVars, refreshTimer, timeouts, searchVars>>
    /\ UNCHANGED <<geoVars, normVars, classVars, cliVars, floodVars>>

\* the timeout of the input listener fires: fetchAddressSuggestions(query)
\* up to its await
AddressTimerFires ==
    /\ addressSuggestTimer.pending
    /\ Len(lookups) < MaxLookups
    /\ addressSuggestTimer' = NoTimer
    /\ lookups' = StartLookup(lookups, addressSuggestController, addressSuggestTimer.query)
    /\ addressSuggestController' = Len(lookups')
    /\ clicks' = NoClicks
    /\ UNCHANGED <<qAddress, addressSuggestionsCache, lastRender>>
    /\ UNCHANGED <<pageVars, selVars, inputVars, viewVars, refreshTimer, timeouts, searchVars>>
    /\ UNCHANGED <<geoVars, normVars, classVars, cliVars, floodVars>>

\* the search service answers lookup id with the results found: the rest of
\* the timeout's callback
LookupAnswered(id, found) ==
    /\ lookups[id].state = "flight"
    /\ lookups' = [lookups EXCEPT ![id].state = "done"]
    /\ renderAddressSuggestions(lookups[id].query, found)
    /\ clicks' = NoClicks
    /\ UNCHANGED <<qAddress, addressSuggestTimer, addressSuggestController>>
    /\ UNCHANGED <<pageVars, selVars, inputVars, viewVars, refreshTimer, timeouts, searchVars>>
    /\ UNCHANGED <<geoVars, normVars, classVars, cliVars, floodVars>>

\* lookup id fails (no connection, or a response that is not ok): the catch
\* of the timeout's callback
LookupFails(id) ==
    /\ lookups[id].state = "flight"
    /\ lookups' = [lookups EXCEPT ![id].state = "done"]
    /\ hideAddressSuggestions
    /\ clicks' = NoClicks
    /\ UNCHANGED <<qAddress, addressSuggestTimer, addressSuggestController, lastRender>>
    /\ UNCHANGED <<pageVars, selVars, inputVars, viewVars, refreshTimer, timeouts, searchVars>>
    /\ UNCHANGED <<geoVars, normVars, classVars, cliVars, floodVars>>

NextAddr ==
    \/ \E text \in AddressTexts : AddressInput(text)
    \/ AddressTimerFires
    \/ \E id \in 1..Len(lookups) :
          \E found \in ResultsFor(lookups[id].query) : LookupAnswered(id, found)
    \/ \E id \in 1..Len(lookups) : LookupFails(id)

SpecAddr == InitAddr /\ [][NextAddr]_vars

\* the page with three records of NearestPool, for the direct searches
SearchFiles == {<<NearestPool[1], NearestPool[3], NearestPool[4]>>}

InitSearch ==
    /\ InitPageOf(SearchFiles)
    /\ PythonIdle

\* where the search service finds the address of a query
GeocodeOf(query) == IF Len(query) = 2 THEN At(0, 0) ELSE At(0, 450)

\* what the search service answers: nothing, the place of the query, or a
\* place whose lat is no number
SearchResults(query) ==
    { <<>>,
      <<GeocodeOf(query)>>,
      <<[lat |-> NaN, lon |-> Num(1747000000)]>> }

\* zoomToAddress(at.lat, at.lon)
zoomToAddress(at) == addressMarker' = at

\* handleAddressSearch after  await response.json()  of search id
SearchSettles(id, found) ==
    IF found = <<>> \/ ~IsFinite(found[1].lat) \/ ~IsFinite(found[1].lon)
    THEN /\ searches' = [searches EXCEPT ![id].state = "empty"]
         /\ UNCHANGED <<addressMarker, lineStart, addressLines>>
    ELSE /\ searches' = [searches EXCEPT ![id].state = "shown"]
         /\ zoomToAddress(found[1])
         /\ drawNearestCarrierLines(found[1])

\* Enter in the address box: handleAddressSearch up to its  await fetch(url)
\* (no text of the model reads as "lat, lon", so parseLatLon gives null)
SubmitSearch ==
    /\ Len(searches) < MaxSearches
    /\ hideAddressSuggestions
    /\ searches' = IF Trim(qAddress) = <<>> THEN searches
                   ELSE Append(searches, [query |-> Trim(qAddress), state |-> "flight"])
    /\ clicks' = NoClicks
    /\ UNCHANGED <<qAddress, addressSuggestTimer, addressSuggestController, lookups,
                   lastRender, addressMarker>>
    /\ UNCHANGED <<pageVars, selVars, inputVars, viewVars, refreshTimer, timeouts>>
    /\ UNCHANGED <<geoVars, normVars, classVars, cliVars, floodVars>>

\* the search service answers search id with found
SearchAnswered(id, found) ==
    /\ searches[id].state = "flight"
    /\ SearchSettles(id, found)
    /\ clicks' = NoClicks
    /\ UNCHANGED <<qAddress, addressSuggestTimer, addressSuggestController, lookups,
                   addressSuggestionsCache, lastRender>>
    /\ UNCHANGED <<carrierDisabled, bandDisabled, latestFiltered, currentGroups,
                   currentClustersByGroupKey>>
    /\ UNCHANGED <<pageVars, selVars, inputVars, refreshTimer, timeouts>>
    /\ UNCHANGED <<geoVars, normVars, classVars, cliVars, floodVars>>

\* the fetch of search id rejects, or its response is not ok: the catch
\* block ignores it
SearchFails(id) ==
    /\ searches[id].state = "flight"
    /\ searches' = [searches EXCEPT ![id].state = "failed"]
    /\ clicks' = NoClicks
    /\ UNCHANGED <<qAddress, addressSuggestTimer, addressSuggestController, lookups,
                   addressSuggestionsCache, lastRender, addressMarker>>
    /\ UNCHANGED <<pageVars, selVars, inputVars, viewVars, refreshTimer, timeouts>>
    /\ UNCHANGED <<geoVars, normVars, classVars, cliVars, floodVars>>

NextSearch ==
    \/ \E text \in AddressTexts : AddressInput(text)
    \/ SubmitSearch
    \/ \E id \in 1..Len(searches) :
          \E found \in SearchResults(searches[id].query) : SearchAnswered(id, found)
    \/ \E id \in 1..Len(searches) : SearchFails(id)

SpecSearch == InitSearch /\ [][NextSearch]_vars

\* the page on the records of GroupPool, whose scalar filters keep either
\* all of them or none: the facet buttons and the location box
NextGroups ==
    \/ \E key \in carrierBtns : ClickCarrier(key)
    \/ \E code \in bandBtns : ClickBand(code)
    \/ \E text \in LocationTexts : LocationInput(text)
    \/ TimerFires
    \/ LocationChange

SpecGroups == InitGroups /\ [][NextGroups]_vars

\* the page while init() awaits the response of DATA_URL: nothing built, no
\* listener attached
InitLoad ==
    /\ tz \in TimeZones
    /\ ipc = "loading"
    /\ dataFile \in DataFiles
    /\ DATA = <<>>
    /\ carrierBtns = {}
    /\ bandBtns = {}
    /\ carrierDisabled = {}
    /\ bandDisabled = {}
    /\ carrierSelected = {}
    /\ bandSelected = {}
    /\ qLocation = ""
    /\ qDistrict = ""
    /\ qCommFrom = Null
    /\ qCommTo = Null
    /\ qExpFrom = Null
    /\ qExpTo = Null
    /\ refreshTimer = FALSE
    /\ timeouts = 0
    /\ latestFiltered = <<>>
    /\ currentGroups = <<>>
    /\ currentClustersByGroupKey = <<>>
    /\ clicks = NoClicks
    /\ lineStart = NoPoint
    /\ addressLines = <<>>
    /\ AddrIdle
    /\ FloodIdle
    /\ PythonIdle

\* init() after the response: DATA without the Uber records, decorated; the
\* buttons built; the listeners attached; the first refresh()
init ==
    /\ ipc = "loading"
    /\ ipc' = "ready"
    /\ DATA' = Decorate(dataFile)
    /\ carrierBtns' = CarrierButtons(DATA')
    /\ bandBtns' = BandButtons(DATA')
    /\ LET f == getFilters("", "", Null, Null, Null, Null, tz)
           baseFiltered == Filter(DATA', {r \in Range(DATA') : passesBaseFilters(r, f, tz)})
       IN  /\ carrierDisabled' = DisabledButtons(carrierBtns', availCarriers(baseFiltered, {}), {})
           /\ bandDisabled' = DisabledButtons(bandBtns', availBands(baseFiltered, {}), {})
           /\ latestFiltered' = SelectionFilter(baseFiltered, {}, {})
           /\ currentGroups' = AddToGroups(<<>>, WithCoords(latestFiltered'))
           /\ currentClustersByGroupKey' = ClusterByGroupKey(currentGroups')
    /\ clearAddressLines
    /\ UNCHANGED <<tz, dataFile, selVars, inputVars, refreshTimer, timeouts, clicks, addrVars,
                   geoVars, normVars, classVars, cliVars, floodVars>>

\* init() when the response is not ok: it throws, and the page stays empty
initFails ==
    /\ ipc = "loading"
    /\ ipc' = "failed"
    /\ UNCHANGED <<tz, dataFile, DATA, carrierBtns, bandBtns, selVars, inputVars,
                   viewVars, refreshTimer, timeouts, clicks, addrVars,
                   geoVars, normVars, classVars, cliVars, floodVars>>

\* the page from the fetch of DATA_URL on; its listeners exist once init()
\* has attached them
NextLoad ==
    \/ init
    \/ initFails
    \/ ipc = "ready" /\ \E key \in carrierBtns : ClickCarrier(key)
    \/ ipc = "ready" /\ \E code \in bandBtns : ClickBand(code)
    \/ ipc = "ready" /\ \E text \in LocationTexts : LocationInput(text)
    \/ ipc = "ready" /\ TimerFires
    \/ ipc = "ready" /\ LocationChange

SpecLoad == InitLoad /\ [][NextLoad]_vars

(***************************************************************************)
(* Properties of pick_lat_lon (checked under SpecGeo).                     *)
(***************************************************************************)
Present(v) == v.k \notin {"null", "missing"}

TagOf(i) == UpperOrEmpty(Get(geo_refs[i].type))

\* entry i of the call carries tag t and the loop accepts its position
Accepted(i, t) ==
    /\ TagOf(i) = t
    /\ Candidate(geo_refs[i], t, tf[i], tr4167, tr4272).acc

AcceptedSet(t) == {i \in 1..Len(geo_refs) : Accepted(i, t)}

Lowest(S) == CHOOSE i \in S : \A j \in S : i <= j

PositionOf(i, t) ==
    LET c == Candidate(geo_refs[i], t, tf[i], tr4167, tr4272)
    IN  [lat |-> c.lat, lon |-> c.lon, src |-> t]

\* C1: lat and lon of a result are both present or both absent; geoSource
\* is one of the six tags; coordinates are present exactly when the tag is
\* D, D2000 or TM2000; the tag is "None" exactly when the list is empty.
C1_GeoSourceContract ==
    gpc = "done" =>
        /\ Present(result.lat) <=> Present(result.lon)
        /\ result.src \in {"None", "D", "D2000", "TM2000",
                           "TM2000(no-pyproj)", "Unknown"}
        /\ Present(result.lat) <=> result.src \in {"D", "D2000", "TM2000"}
        /\ (result.src = "None") <=> (Len(geo_refs) = 0)

C1_Witness ==
    /\ gpc = "done"
    /\ result.src = "TM2000"
    /\ Present(result.lat) /\ Present(result.lon)
    /\ Len(geo_refs) = 2

\* C4: the tags are tried in the order D, D2000, TM2000 whatever the order
\* of the list: an accepted D entry wins (the first one in list order), a
\* D2000 entry is used only when no D entry is accepted, and the TM2000
\* loop is reached only when no direct entry is accepted.
C4_TagPriority ==
    gpc = "done" =>
        LET aD == AcceptedSet("D")
            a2 == AcceptedSet("D2000")
        IN  /\ aD # {} => result = PositionOf(Lowest(aD), "D")
            /\ (aD = {} /\ a2 # {}) => result = PositionOf(Lowest(a2), "D2000")
            /\ result.src = "D2000" => aD = {}
            /\ result.src \in {"TM2000", "TM2000(no-pyproj)", "Unknown"}
                   => (aD = {} /\ a2 = {})

C4_Witness ==
    /\ gpc = "done"
    /\ Len(geo_refs) = 2
    /\ Accepted(1, "D2000")
    /\ Accepted(2, "D")
    /\ result.src = "D"

\* C5: a D or D2000 result is the (easting, northing) of an entry of that
\* tag read as (lon, lat), passed through the tag's transform when there is
\* one, and lies strictly inside -60 < lat < -20, 150 < lon < 190; an entry
\* that is rejected lets a later entry of the tag be used; and the D entry
\* (174.7, -41.2) without a transform gives (-41.2, 174.7, "D").
C5_DirectBox ==
    gpc = "done" =>
        /\ result.src \in {"D", "D2000"} =>
              /\ result.lat.k = "num" /\ -600 < result.lat.n /\ result.lat.n < -200
              /\ result.lon.k = "num" /\ 1500 < result.lon.n /\ result.lon.n < 1900
              /\ \E i \in 1..Len(geo_refs) :
                    /\ TagOf(i) = result.src
                    /\ IF (result.src = "D" /\ tr4272) \/ (result.src = "D2000" /\ tr4167)
                       THEN /\ tf[i].ok
                            /\ result.lon = tf[i].lon
                            /\ result.lat = tf[i].lat
                       ELSE /\ PyFloat(geo_refs[i].easting).ok
                            /\ PyFloat(geo_refs[i].northing).ok
                            /\ result.lon = PyFloat(geo_refs[i].easting).v
                            /\ result.lat = PyFloat(geo_refs[i].northing).v
        /\ \A t \in {"D", "D2000"} :
              (\E i, j \in 1..Len(geo_refs) :
                    i < j /\ TagOf(i) = t /\ ~Accepted(i, t) /\ Accepted(j, t))
                  => result.src \in {"D", "D2000"}
        /\ ( /\ Len(geo_refs) = 1
             /\ geo_refs[1] = [type |-> Str("D"), easting |-> Num(1747),
                               northing |-> Num(-412)]
             /\ ~tr4272 )
              => result = [lat |-> Num(-412), lon |-> Num(1747), src |-> "D"]

C5_Witness ==
    /\ gpc = "done"
    /\ Len(geo_refs) = 2
    /\ ~tr4272
    /\ geo_refs[1] = [type |-> Str("D"), easting |-> Num(1500), northing |-> Num(-412)]
    /\ geo_refs[2] = [type |-> Str("D"), easting |-> Num(1747), northing |-> Num(-412)]
    /\ result = [lat |-> Num(-412), lon |-> Num(1747), src |-> "D"]

\* C6: with no direct entry accepted, a TM2000 entry in the list and no
\* TM2000 transform, the result is (None, None, "TM2000(no-pyproj)").
C6_NoTransformTag ==
    ( /\ gpc = "done"
      /\ AcceptedSet("D") = {}
      /\ AcceptedSet("D2000") = {}
      /\ \E i \in 1..Len(geo_refs) : TagOf(i) = "TM2000"
      /\ ~tr2193 )
        => /\ result = [lat |-> Null, lon |-> Null, src |-> "TM2000(no-pyproj)"]
           /\ result.src \notin {"Unknown", "None"}

C6_Witness ==
    /\ gpc = "done"
    /\ ~tr2193
    /\ Len(geo_refs) = 2
    /\ TagOf(1) = "D" /\ ~Accepted(1, "D")
    /\ TagOf(2) = "TM2000"
    /\ result.src = "TM2000(no-pyproj)"

(***************************************************************************)
(* Properties of normalise_records (checked under Spec).                   *)
(***************************************************************************)
OutIndex == 1..Len(out)

\* the raw record that out[i] was built from (ids are list positions)
RawOf(i) == records[out[i].id.n]

\* "RCV" compared case-insensitively
IsRcvText(v) == v.k = "str" /\ v.s \in {"RCV", "rcv", "Rcv", "rCv", "rcV", "RCv", "rCV", "RcV"}

\* the year, month and day of a text of the form YYYY-MM-DD; <<>> for a
\* text of another form
DateParts(s) ==
    CASE s = "2024-02-29" -> <<2024, 2, 29>>
      [] s = "2023-02-29" -> <<2023, 2, 29>>
      [] OTHER -> <<>>

IsLeap(y) == (y % 4 = 0 /\ y % 100 # 0) \/ y % 400 = 0

DaysIn(y, m) ==
    CASE m \in {4, 6, 9, 11} -> 30
      [] m = 2 -> IF IsLeap(y) THEN 29 ELSE 28
      [] OTHER -> 31

IsCalendarDate(s) ==
    LET d == DateParts(s)
    IN  /\ Len(d) = 3
        /\ d[2] \in 1..12
        /\ d[3] \in 1..DaysIn(d[1], d[2])

DateOrAbsent(v) == v = Null \/ (v.k = "str" /\ IsCalendarDate(v.s))

IsNumber(v) == v.k \in {"num", "nan", "inf"}

\* C2: lat and lon of a normalised record, when present, are finite with
\* lat in (-90, 90) and lon in (-180, 180).
C2_LatLonInRange ==
    \A i \in OutIndex :
        /\ Present(out[i].lat) <=> Present(out[i].lon)
        /\ Present(out[i].lat) =>
              /\ out[i].lat.k = "num" /\ -900 < out[i].lat.n /\ out[i].lat.n < 900
              /\ out[i].lon.k = "num" /\ -1800 < out[i].lon.n /\ out[i].lon.n < 1800

\* C3: bandwidthMHz of a normalised record is null or >= 0.
C3_BandwidthNonNegative ==
    \A i \in OutIndex :
        \/ out[i].bandwidthMHz = Null
        \/ out[i].bandwidthMHz.k = "num" /\ out[i].bandwidthMHz.n >= 0

\* C7: no output record has a configType equal to "RCV", compared
\* case-insensitively.
C7_NoReceiveOnly == \A i \in OutIndex : ~IsRcvText(out[i].configType)

C7_Witness ==
    /\ idx = 2
    /\ records[1].configType = Str("rcv")
    /\ records[2].configType = Str("TRN")
    /\ Len(out) = 1

\* C8: each of the four dates of a normalised record is a valid
\* calendar-date text or absent.
C8_DatesValidOrAbsent ==
    \A i \in OutIndex :
        /\ DateOrAbsent(out[i].commencementDate)
        /\ DateOrAbsent(out[i].expiryDate)
        /\ DateOrAbsent(out[i].certificationDate)
        /\ DateOrAbsent(out[i].lastUpdatedDate)

C10_MalformedNumericAbsent ==
    \A i \in OutIndex :
        LET r == RawOf(i)
        IN  /\ ~PyFloat(r.refFrequency).ok => out[i].refFrequencyMHz = Null
            /\ ~PyFloat(r.lowerBound).ok => out[i].lowerBoundMHz = Null
            /\ ~PyFloat(r.upperBound).ok => out[i].upperBoundMHz = Null
            /\ (~PyFloat(r.lowerBound).ok \/ ~PyFloat(r.upperBound).ok)
                  => out[i].bandwidthMHz = Null
            /\ \A v \in {out[i].refFrequencyMHz, out[i].lowerBoundMHz,
                         out[i].upperBoundMHz, out[i].bandwidthMHz} :
                  v = Null \/ IsNumber(v)

(***************************************************************************)
(* Properties of the classifiers (checked under SpecClassify).             *)
(***************************************************************************)
\* the table entries whose inclusive range holds the finite number x
BandHits(x) ==
    {k \in 1..Len(BAND_DEFS) :
        x.k = "num" /\ BAND_DEFS[k].lo <= x.n /\ x.n <= BAND_DEFS[k].hi}

\* C11: classify_band gives "unknown" for a null frequency, else the code
\* of the first table entry whose inclusive range holds it, else "other";
\* in the overlap of b5 and b8 the answer is b5, and 750 is b28.
C11_FirstInclusiveBand ==
    bandCode # "" =>
        /\ mhz = Null => bandCode = "unknown"
        /\ (mhz # Null /\ BandHits(mhz) = {}) => bandCode = "other"
        /\ BandHits(mhz) # {} => bandCode = BAND_DEFS[Lowest(BandHits(mhz))].code
        /\ mhz \in {Num(703), Num(750), Num(803)} => bandCode = "b28"
        /\ mhz \in {Num(880), Num(887), Num(894)} => bandCode = "b5"
        /\ mhz = Num(895) => bandCode = "b8"

C11_Witness == mhz = Num(887) /\ bandCode = "b5"

\* the rules of the carrier classifier, in their order
CarrierRules ==
    << [pats |-> {"TWO DEGREES"}, key |-> "2degrees"],
       [pats |-> {"SPARK"}, key |-> "spark"],
       [pats |-> {"ONE NEW ZEALAND", "ONE NZ", "VODAFONE"}, key |-> "one"],
       [pats |-> {"RURAL"}, key |-> "rcg"],
       [pats |-> {"T{U}~ {A}~TEA", "TU ATEA"}, key |-> "tuatea"],
       [pats |-> {"UBER"}, key |-> "uber"] >>

\* the rules that match the licensee text l
RuleHits(l) ==
    {k \in 1..Len(CarrierRules) : \E pat \in CarrierRules[k].pats : InUpper(l, pat)}

FirstRuleKey(l) ==
    IF l.isNull \/ l.parts = <<>> \/ RuleHits(l) = {} THEN "unknown"
    ELSE CarrierRules[Lowest(RuleHits(l))].key

\* C12: carrier_key_from_licensee upper-cases the licensee and returns the
\* key of the first rule, in the order TWO DEGREES, SPARK, ONE NEW ZEALAND |
\* ONE NZ | VODAFONE, RURAL, TU ATEA, UBER, that has a substring in it, and
\* "unknown" for no match and for an empty or missing licensee;
\* "ONE NEW ZEALAND GROUP" gives "one".
C12_FirstCarrierRule ==
    carrierKey # "" =>
        /\ carrierKey = FirstRuleKey(licensee)
        /\ licensee = LText(<<"ONE NEW ZEALAND", "GROUP">>) => carrierKey = "one"
        /\ licensee \in {LNull, LText(<<>>), LText(<<"GROUP">>)}
              => carrierKey = "unknown"

C12_Witness ==
    /\ licensee = LText(<<"Sparks", "Two Degrees">>)
    /\ carrierKey = "2degrees"

\* the two carrier classifiers agree on every licensee text
CarrierKeysAgree ==
    \A l \in LicenseeInputs : carrierKeyFromLicensee(l) = carrier_key_from_licensee(l)

\* C13: classifying the stored refFrequencyMHz of a normalised record again
\* gives its stored bandCode, and the page's carrierKeyFromLicensee gives
\* for every licensee text, stored or not, the key that
\* carrier_key_from_licensee gives.
C13_ClassifiersAgree ==
    /\ \A i \in 1..Len(out) :
          /\ classify_band(out[i].refFrequencyMHz) = out[i].bandCode
          /\ carrierKeyFromLicensee(out[i].licensee)
                = carrier_key_from_licensee(out[i].licensee)
    /\ CarrierKeysAgree

C13_Witness ==
    \E i \in 1..Len(out) :
        /\ out[i].licensee = LText(<<"One NZ", "GROUP">>)
        /\ carrierKeyFromLicensee(out[i].licensee) = "one"
        /\ out[i].refFrequencyMHz = Num(887)
        /\ out[i].bandCode = "b5"

(***************************************************************************)
(* Properties of the page (checked under SpecUI).  refreshTimer is FALSE   *)
(* exactly in the states a refresh() has just left.                        *)
(***************************************************************************)
\* the records that pass the base filters now in the inputs
BasePassing == {r \in Range(DATA) : passesBaseFilters(r, CurrentFilters, tz)}

AllowedBy(selected, option) == selected = {} \/ option \in selected

\* C14: after every refresh latestFiltered holds exactly the records that
\* pass the base filters, whose carrier is selected or no carrier is, and
\* whose band is selected or no band is; with only spark selected these are
\* the spark records of every band.
C14_LatestFiltered ==
    ~refreshTimer =>
        /\ Range(latestFiltered) =
              {r \in BasePassing : /\ AllowedBy(carrierSelected, CarrierOf(r))
                                   /\ AllowedBy(bandSelected, BandOf(r))}
        /\ Len(latestFiltered) = Cardinality(Range(latestFiltered))
        /\ (carrierSelected = {"spark"} /\ bandSelected = {}) =>
              Range(latestFiltered) = {r \in BasePassing : r.carrierKey = "spark"}

C14_Witness ==
    /\ ~refreshTimer
    /\ carrierSelected = {"spark"}
    /\ bandSelected = {}
    /\ {BandOf(r) : r \in Range(latestFiltered)} = {"b28", "b3"}
    /\ Len(DATA) = 3

\* a click on the button key of the facet has just been handled
JustClicked(facet, key) ==
    /\ clicks' # clicks
    /\ clicks'.facet = facet
    /\ clicks'.key = key

\* what a click on option makes of the set: from empty the singleton, from
\* a non-empty set the option added if absent and removed if present
AfterClick(selected, option) ==
    IF selected = {} THEN {option}
    ELSE IF option \in selected THEN selected \ {option} ELSE selected \cup {option}

\* C15: a click on a carrier button or on a band button changes the set of
\* its facet only: an empty set becomes the singleton, a non-empty set gains
\* the option if absent and loses it if present (losing the last leaves it
\* empty), and the set of the other facet stays as it is.
C15_ClickChangesOneFacet ==
    [][ /\ \A key \in carrierBtns :
              JustClicked("carrier", key) =>
                  /\ carrierSelected' = AfterClick(carrierSelected, key)
                  /\ bandSelected' = bandSelected
        /\ \A code \in bandBtns :
              JustClicked("band", code) =>
                  /\ bandSelected' = AfterClick(bandSelected, code)
                  /\ carrierSelected' = carrierSelected ]_vars

C15_Witness ==
    /\ clicks = [facet |-> "carrier", key |-> "spark", twice |-> FALSE,
                 start |-> {"one", "spark"}, pending |-> FALSE]
    /\ carrierSelected = {"one"}
    /\ bandSelected = {"b28"}

\* the set of the facet
SelectedOf(facet) == IF facet = "carrier" THEN carrierSelected ELSE bandSelected

\* C16: two clicks in a row on the same option leave the set of its facet
\* as it was before the first of them, from the empty set and from every
\* other set.
C16_ToggleInvolution == clicks.twice => SelectedOf(clicks.facet) = clicks.start

C16_Witness ==
    /\ clicks.twice
    /\ clicks.facet = "band"
    /\ clicks.start = {"b28", "b3"}
    /\ bandSelected = {"b28", "b3"}

\* C17: after a refresh no selected carrier or band option is disabled.
C17_SelectedNeverDisabled ==
    /\ carrierSelected \cap carrierDisabled = {}
    /\ bandSelected \cap bandDisabled = {}

C17_Witness ==
    /\ ~refreshTimer
    /\ "spark" \in carrierSelected
    /\ \A r \in BasePassing : CarrierOf(r) # "spark"
    /\ "spark" \notin carrierDisabled

\* C18: after every refresh a carrier button is enabled exactly if its
\* carrier is selected or some record passing the base filters has that
\* carrier and a band the band selection allows, and a band button exactly
\* if its band is selected or some such record has that band and a carrier
\* the carrier selection allows.
C18_EnabledIffSelectedOrAvailable ==
    ~refreshTimer =>
        /\ \A key \in carrierBtns :
              key \notin carrierDisabled <=>
                  \/ key \in carrierSelected
                  \/ \E r \in BasePassing :
                        CarrierOf(r) = key /\ AllowedBy(bandSelected, BandOf(r))
        /\ \A code \in bandBtns :
              code \notin bandDisabled <=>
                  \/ code \in bandSelected
                  \/ \E r \in BasePassing :
                        BandOf(r) = code /\ AllowedBy(carrierSelected, CarrierOf(r))

C18_Witness ==
    /\ ~refreshTimer
    /\ bandSelected = {"b3"}
    /\ carrierSelected = {}
    /\ "one" \in carrierDisabled
    /\ "spark" \in carrierBtns \ carrierDisabled
    /\ \E r \in BasePassing : CarrierOf(r) = "one"

\* C19: in every reachable state, whatever clicks and filter changes led to
\* it, each selected option has a button that takes a click, and that click
\* removes exactly this option (the rest of the handler, refreshImmediate,
\* has no condition and leaves both sets alone); so clicks on enabled
\* buttons alone bring both sets back to empty, one option at a time.
C19_CanAlwaysDeselect ==
    /\ \A key \in carrierSelected :
          ENABLED (ToggleCarrier(key) /\ carrierSelected' = carrierSelected \ {key})
    /\ \A code \in bandSelected :
          ENABLED (ToggleBand(code) /\ bandSelected' = bandSelected \ {code})

C19_Witness ==
    /\ refreshTimer
    /\ carrierSelected = {"spark"}
    /\ bandSelected = {"b3"}
    /\ BasePassing = {}

\* the groups made by the last refresh
GroupSet == Range(currentGroups)

\* the groups a chain of steps of at most 50 m joins to those of S
RECURSIVE ChainedTo(_)
ChainedTo(S) ==
    LET more == S \cup {h \in GroupSet : \E g \in S : Near(g, h)}
    IN  IF more = S THEN S ELSE ChainedTo(more)

SameCluster(g, h) == currentClustersByGroupKey[g.key] = currentClustersByGroupKey[h.key]

\* C20: after every refresh two MarkerGroups are in the same Cluster exactly
\* if a chain of MarkerGroups joins them whose consecutive groups are at
\* most 50 m apart; so being in one Cluster is transitive, and two groups
\* 40 m apart are in one Cluster.
C20_ClustersAreComponents ==
    /\ DOMAIN currentClustersByGroupKey = {g.key : g \in GroupSet}
    /\ \A g, h \in GroupSet :
          /\ SameCluster(g, h) <=> h \in ChainedTo({g})
          /\ (g.lat - h.lat = 3600) => SameCluster(g, h)
          /\ \A m \in GroupSet : SameCluster(g, m) /\ SameCluster(m, h) => SameCluster(g, h)

\* after clicks on two band buttons: three groups in one Cluster, the outer
\* two further than 50 m apart
C20_Witness ==
    /\ bandSelected = {"b28", "b3"}
    /\ \E g, h \in GroupSet :
          /\ ~Near(g, h)
          /\ SameCluster(g, h)
          /\ Len(currentClustersByGroupKey[g.key].groups) = 3

\* the Clusters made by the last refresh
ClusterSet == {currentClustersByGroupKey[key] : key \in DOMAIN currentClustersByGroupKey}

\* the members of cluster c that a chain of steps of at most 50 m, all of
\* them members of c, joins to those of S
RECURSIVE ChainedWithin(_, _)
ChainedWithin(c, S) ==
    LET more == S \cup {h \in Range(c.groups) : \E g \in S : Near(g, h)}
    IN  IF more = S THEN S ELSE ChainedWithin(c, more)

\* C21, as stated: within every Cluster made by refresh every two member
\* MarkerGroups are at most 50 m apart.
C21_PairwiseWithinRadius ==
    \A c \in ClusterSet : \A g, h \in Range(c.groups) : Near(g, h)

\* C21, amended: within every Cluster made by refresh every member
\* MarkerGroup is joined to every other member by a chain of members whose
\* consecutive groups are at most 50 m apart (so a member of a Cluster of
\* several groups is at most 50 m from another member); two members may be
\* further than 50 m apart.
C21_MembersChained ==
    \A c \in ClusterSet : \A g \in Range(c.groups) :
        /\ ChainedWithin(c, {g}) = Range(c.groups)
        /\ Len(c.groups) > 1 => \E h \in Range(c.groups) : h # g /\ Near(g, h)

\* after clicks on two carrier buttons: a Cluster of three groups, two of
\* them 90 m apart, each at most 50 m from another member
C21_Witness ==
    /\ carrierSelected = {"one", "spark"}
    /\ bandSelected = {}
    /\ \E c \in ClusterSet :
          /\ Len(c.groups) = 3
          /\ \E g, h \in Range(c.groups) : ~Near(g, h)
          /\ \A g \in Range(c.groups) : \E h \in Range(c.groups) : h # g /\ Near(g, h)

(***************************************************************************)
(* post_page: one session.post per attempt.  An exchange either raises     *)
(* (no connection, timeout) or brings a response with a status and a body  *)
(* that r.json() parses or not.                                            *)
(***************************************************************************)
HttpOutcomes ==
    { [kind |-> "exc", status |-> 0, json |-> FALSE],
      [kind |-> "resp", status |-> 200, json |-> TRUE],
      [kind |-> "resp", status |-> 200, json |-> FALSE],
      [kind |-> "resp", status |-> 399, json |-> TRUE],
      [kind |-> "resp", status |-> 400, json |-> FALSE],
      [kind |-> "resp", status |-> 401, json |-> FALSE] }

\* what the try block raises on the exchange o, "" if it returns
Raised(o) ==
    IF o.kind = "exc" THEN "RequestException"
    ELSE IF o.status = 401 THEN "401 Unauthorized"
    ELSE IF o.status >= 400 THEN "HTTP error"
    ELSE IF ~o.json THEN "JSONDecodeError"
    ELSE ""

\* r.json() of the exchange o
Body(o) == [k |-> "str", n |-> o.status, s |-> "json"]

\* the sleep without its cap
BackoffUncapped(n) == 2^n

\* sleep_s after the failed attempt n
Backoff(n) == IF 2^n < 20 THEN 2^n ELSE 20

InitPost ==
    /\ retries \in 0..MaxRetries
    /\ attempt = 0
    /\ last_err = "None"
    /\ slept = <<>>
    /\ pp = "run"
    /\ response = Null
    /\ posts = <<>>
    /\ FetchIdle
    /\ MainIdle
    /\ PythonIdleOnly
    /\ PageIdle

\* one pass of the for loop, the exchange being o
PostAttempt(o) ==
    /\ pp = "run"
    /\ attempt < retries
    /\ attempt' = attempt + 1
    /\ posts' = Append(posts, o)
    /\ IF Raised(o) = ""
       THEN /\ pp' = "returned"
            /\ response' = Body(o)
            /\ UNCHANGED <<last_err, slept>>
       ELSE /\ last_err' = Raised(o)
            /\ slept' = Append(slept, Backoff(attempt'))
            /\ UNCHANGED <<pp, response>>
    /\ UNCHANGED <<retries, fetchVars, mainVars, geoVars, normVars, classVars, uiVars>>

\* the loop is over: raise RuntimeError("Failed after retries: ...")
PostExhausted ==
    /\ pp = "run"
    /\ attempt = retries
    /\ pp' = "raised"
    /\ UNCHANGED <<retries, attempt, last_err, slept, response, posts>>
    /\ UNCHANGED <<fetchVars, mainVars, geoVars, normVars, classVars, uiVars>>

NextPost ==
    \/ \E o \in HttpOutcomes : PostAttempt(o)
    \/ PostExhausted

SpecPost == InitPost /\ [][NextPost]_vars

\* post_page runs on: a call of session.post returns or raises (timeout = 30)
\* and time.sleep returns
SpecPostFair == SpecPost /\ WF_vars(NextPost)

(***************************************************************************)
(* main and fetch_all.  A call of post_page by fetch_all is one step: it   *)
(* returns the response to the page asked for, or raises.                  *)
(***************************************************************************)
\* what the file args.json_in may hold
JsonFiles == {"missing", "invalid", "object", "array"}

\* the mode flags of a command line argparse accepts
Modes == {"", "--html-only", "--fetch"}

MaxPagesArgs == {-1, 0, 1, 2}

TotalPagesValues == {Missing, Null, Str("2")} \cup {Num(n) : n \in 0..MaxPages}

\* the results of the response to page p: null, or a list of items
ResultLists(p) ==
    { [isNull |-> TRUE, items |-> <<>>],
      [isNull |-> FALSE, items |-> <<[page |-> p, item |-> 1]>>],
      [isNull |-> FALSE,
       items |-> <<[page |-> p, item |-> 1], [page |-> p, item |-> 2]>>] }

\* the responses post_page may return for page p
PageResponses(p) ==
    {[totalPages |-> tp, results |-> rs] : tp \in TotalPagesValues, rs \in ResultLists(p)}

\* int(first.get("totalPages", 1)); Null where int() raises
IntTotalPages(v) ==
    IF v = Missing THEN Num(1)
    ELSE IF v.k = "num" THEN v
    ELSE IF v = Str("2") THEN Num(2)
    ELSE Null

\* the cap applied whatever max_pages is
CapAlways(total, cap) == IF total < cap THEN total ELSE cap

\* total_pages after the if max_pages and max_pages > 0
CapPages(total, cap) ==
    IF cap # 0 /\ cap > 0 THEN (IF total < cap THEN total ELSE cap) ELSE total

\* data.get("results") or []
ResultsOf(resp) == IF resp.results.isNull THEN <<>> ELSE resp.results.items

\* html_only that needs the flag
html_only_if_asked(a) == a = "--html-only"

\* args.html_only or not args.fetch
html_only(a) == a = "--html-only" \/ ~(a = "--fetch")

\* read_json: TRUE if it returns, FALSE if it raises
read_json(file) == file = "array"

InitMain ==
    /\ args \in Modes
    /\ json_in \in JsonFiles
    /\ written = <<>>
    /\ mn = "start"
    /\ exit = -1
    /\ fa = "idle"
    /\ max_pages \in MaxPagesArgs
    /\ total_pages = 0
    /\ page = 0
    /\ results = <<>>
    /\ first = [totalPages |-> Null, results |-> [isNull |-> TRUE, items |-> <<>>]]
    /\ calls = <<>>
    /\ PostIdle
    /\ PythonIdleOnly
    /\ PageIdle

\* main up to its return, or up to its call of fetch_all
MainStart ==
    /\ mn = "start"
    /\ IF html_only(args)
       THEN /\ mn' = "returned"
            /\ IF read_json(json_in)
               THEN written' = <<"html_out">> /\ exit' = 0
               ELSE written' = written /\ exit' = 2
            /\ UNCHANGED fa
       ELSE /\ mn' = "fetching"
            /\ fa' = "first"
            /\ UNCHANGED <<written, exit>>
    /\ UNCHANGED <<args, json_in, max_pages, total_pages, page, results, first, calls>>
    /\ UNCHANGED <<postVars, geoVars, normVars, classVars, uiVars>>

\* fetch_all from its start to the for loop, post_page returning resp
FetchFirst(resp) ==
    /\ fa = "first"
    /\ page' = 1
    /\ first' = resp
    /\ calls' = Append(calls, [page |-> 1, raised |-> FALSE, results |-> ResultsOf(resp)])
    /\ LET total == IntTotalPages(resp.totalPages)
       IN  IF total = Null
           THEN /\ fa' = "raised"
                /\ UNCHANGED <<total_pages, results>>
           ELSE /\ total_pages' = CapPages(total.n, max_pages)
                /\ results' = ResultsOf(resp)
                /\ fa' = IF 2 <= total_pages' THEN "loop" ELSE "returned"
    /\ UNCHANGED <<max_pages, mainVars, postVars, geoVars, normVars, classVars, uiVars>>

\* one pass of the for loop, post_page returning resp
FetchPage(resp) ==
    /\ fa = "loop"
    /\ page' = page + 1
    /\ calls' = Append(calls, [page |-> page', raised |-> FALSE, results |-> ResultsOf(resp)])
    /\ results' = results \o ResultsOf(resp)
    /\ fa' = IF page' + 1 <= total_pages THEN "loop" ELSE "returned"
    /\ UNCHANGED <<max_pages, total_pages, first>>
    /\ UNCHANGED <<mainVars, postVars, geoVars, normVars, classVars, uiVars>>

\* post_page raises: fetch_all raises
FetchFails ==
    /\ fa \in {"first", "loop"}
    /\ page' = page + 1
    /\ calls' = Append(calls, [page |-> page', raised |-> TRUE, results |-> <<>>])
    /\ fa' = "raised"
    /\ UNCHANGED <<max_pages, total_pages, results, first>>
    /\ UNCHANGED <<mainVars, postVars, geoVars, normVars, classVars, uiVars>>

\* fetch_all has returned: main writes the two files and returns 0
MainFinish ==
    /\ mn = "fetching"
    /\ fa = "returned"
    /\ written' = <<"json_out", "html_out">>
    /\ exit' = 0
    /\ mn' = "returned"
    /\ UNCHANGED <<args, json_in, fetchVars, postVars, geoVars, normVars, classVars, uiVars>>

\* fetch_all has raised: so does main
MainAborts ==
    /\ mn = "fetching"
    /\ fa = "raised"
    /\ mn' = "raised"
    /\ UNCHANGED <<args, json_in, written, exit>>
    /\ UNCHANGED <<fetchVars, postVars, geoVars, normVars, classVars, uiVars>>

NextMain ==
    \/ MainStart
    \/ \E resp \in PageResponses(1) : FetchFirst(resp)
    \/ \E resp \in PageResponses(page + 1) : FetchPage(resp)
    \/ FetchFails
    \/ MainFinish
    \/ MainAborts

SpecMain == InitMain /\ [][NextMain]_vars

(***************************************************************************)
(* Properties of grouping and clustering (checked under SpecGroups).       *)
(***************************************************************************)
\* the filtered records that have coordinates
Geolocated == {r \in Range(latestFiltered) : r.lat.k = "num" /\ r.lon.k = "num"}

\* x rounded to 6 decimals: the multiple of 10 (in 1e-7 degrees) nearest to x
Round6(x) == CHOOSE m \in (x - 4)..(x + 4) : m % 10 = 0

\* the groups that hold record r
GroupsOf(r) == {i \in 1..Len(currentGroups) : r \in Range(currentGroups[i].items)}

\* the number of items of the groups gs
RECURSIVE ItemCount(_)
ItemCount(gs) == IF gs = <<>> THEN 0 ELSE Len(Head(gs).items) + ItemCount(Tail(gs))

\* C22: after every refresh every filtered record with coordinates is in
\* exactly one MarkerGroup, whose key is its carrier key with its latitude
\* and longitude rounded to 6 decimals; there is one MarkerGroup for each
\* distinct key; every MarkerGroup is in exactly one Cluster; the items of a
\* Cluster are the records of its member groups; and no record outside the
\* filtered set is in a group or a Cluster.
C22_GroupsAndClustersPartition ==
    /\ \A r \in Geolocated :
          /\ Cardinality(GroupsOf(r)) = 1
          /\ \A i \in GroupsOf(r) :
                /\ currentGroups[i].key
                      = <<CarrierOf(r), Round6(r.lat.n), Round6(r.lon.n)>>
                /\ Cardinality({j \in 1..Len(currentGroups[i].items) :
                                    currentGroups[i].items[j] = r}) = 1
    /\ \A i, j \in 1..Len(currentGroups) :
          currentGroups[i].key = currentGroups[j].key => i = j
    /\ {g.key : g \in GroupSet}
          = {<<CarrierOf(r), Round6(r.lat.n), Round6(r.lon.n)>> : r \in Geolocated}
    /\ DOMAIN currentClustersByGroupKey = {g.key : g \in GroupSet}
    /\ \A g \in GroupSet :
          {c \in ClusterSet : g \in Range(c.groups)} = {currentClustersByGroupKey[g.key]}
    /\ \A c \in ClusterSet :
          /\ Range(c.items) = UNION {Range(g.items) : g \in Range(c.groups)}
          /\ Len(c.items) = ItemCount(c.groups)
          /\ Len(c.groups) = Cardinality(Range(c.groups))
          /\ Range(c.groups) \subseteq GroupSet
    /\ \A g \in GroupSet : Range(g.items) \subseteq Geolocated

\* two records in one group, a second group in the same Cluster, and a
\* filtered record without coordinates in neither
C22_Witness ==
    /\ Len(latestFiltered) = 3
    /\ Cardinality(Geolocated) = 2
    /\ Len(currentGroups) = 1
    /\ Len(currentGroups[1].items) = 2
    /\ currentGroups[1].items[1].lat # currentGroups[1].items[2].lat

\* the sequences that hold each element of s once
Orderings(s) ==
    {[i \in 1..Len(s) |-> s[p[i]]] :
        p \in {q \in [1..Len(s) -> 1..Len(s)] : \A i, j \in 1..Len(s) : q[i] = q[j] => i = j}}

\* the partition of the group keys into Clusters that the map m states
PartitionOf(m) ==
    {{key \in DOMAIN m : m[key].groups = m[k0].groups} : k0 \in DOMAIN m}

\* the partition a refresh makes of the filtered records in the order rs
PartitionFrom(rs) == PartitionOf(ClusterByGroupKey(AddToGroups(<<>>, WithCoords(rs))))

\* C23: the partition of the MarkerGroups into Clusters depends on the
\* filtered records alone: a refresh of the same records gives the same
\* partition in whatever order the records are visited.
C23_OrderIndependent ==
    \A rs \in Orderings(latestFiltered) :
        PartitionFrom(rs) = PartitionOf(currentClustersByGroupKey)

(***************************************************************************)
(* The click handlers refresh at once (checked under SpecUI).              *)
(***************************************************************************)
\* what the selections and the filter inputs make of DATA: the filtered
\* records, the groups and Clusters of those, and the disabled buttons
ViewOfInputs ==
    LET keep == {r \in BasePassing : /\ AllowedBy(carrierSelected, CarrierOf(r))
                                     /\ AllowedBy(bandSelected, BandOf(r))}
    IN  /\ latestFiltered = Filter(DATA, keep)
        /\ currentGroups = AddToGroups(<<>>, WithCoords(latestFiltered))
        /\ currentClustersByGroupKey = ClusterByGroupKey(currentGroups)
        /\ carrierDisabled =
              {key \in carrierBtns \ carrierSelected :
                  \A r \in BasePassing :
                      CarrierOf(r) = key => ~AllowedBy(bandSelected, BandOf(r))}
        /\ bandDisabled =
              {code \in bandBtns \ bandSelected :
                  \A r \in BasePassing :
                      BandOf(r) = code => ~AllowedBy(carrierSelected, CarrierOf(r))}

\* C27: a click on a carrier or band button takes effect in the handler
\* itself (clicks names a button exactly in the states a click handler has
\* just left): when it returns no debounced location refresh is pending, and
\* latestFiltered, the MarkerGroups, the Clusters and the disabled buttons
\* are those of the new selections and of the values now in the filter
\* inputs.
C27_ClickAppliesImmediately ==
    clicks.facet \in {"carrier", "band"} =>
        /\ ~refreshTimer
        /\ ViewOfInputs

\* a click that found the timer of a typed location pending: the text typed
\* is applied together with the selection
C27_Witness ==
    /\ clicks.facet = "band"
    /\ clicks.pending
    /\ ~refreshTimer
    /\ qLocation = "Wel"
    /\ bandSelected = {"b28"}
    /\ Len(latestFiltered) = 1
    /\ Len(DATA) = 3

(***************************************************************************)
(* Properties of the proximity lines (checked under SpecNearest).  While   *)
(* lineStart is a position, addressLines are the lines that                *)
(* drawNearestCarrierLines drew from it on the latestFiltered of the state.*)
(***************************************************************************)
\* the geolocated records of carrier key in the filtered set
Candidates(key) ==
    {r \in Range(latestFiltered) :
        /\ r.lat.k = "num" /\ r.lon.k = "num" /\ r.carrierKey = key}

\* the squared-degree distance of record r from lineStart
SquaredDegrees(r) ==
    ((r.lat.n - lineStart.lat.n) * (r.lat.n - lineStart.lat.n))
        + ((r.lon.n - lineStart.lon.n) * (r.lon.n - lineStart.lon.n))

\* r is a nearest record of carrier key
IsNearest(r, key) ==
    /\ r \in Candidates(key)
    /\ \A q \in Candidates(key) : SquaredDegrees(r) <= SquaredDegrees(q)

\* an rcg record is strictly closer than every record of a primary carrier
RcgStrictlyClosest ==
    \E r \in Candidates("rcg") :
        \A key \in {"2degrees", "one", "spark"} :
            \A q \in Candidates(key) : SquaredDegrees(r) < SquaredDegrees(q)

\* C24: when the nearest rcg record is strictly closer than the nearest
\* record of every primary carrier, drawNearestCarrierLines draws one line
\* only, to that rcg record.
C24_RcgAloneWhenStrictlyClosest ==
    (lineStart # NoPoint /\ RcgStrictlyClosest) =>
        /\ Len(addressLines) = 1
        /\ addressLines[1].key = "rcg"
        /\ IsNearest(addressLines[1].end, "rcg")

\* an rcg record closer than the records of two primary carriers
C24_Witness ==
    /\ lineStart = At(0, 450)
    /\ Candidates("one") # {}
    /\ Candidates("spark") # {}
    /\ Len(addressLines) = 1
    /\ addressLines[1].end.id = 4

\* C25: when no rcg record is strictly closer than every primary record,
\* drawNearestCarrierLines draws one line for each primary carrier that has
\* a geolocated record in the filtered set, to a nearest record of that
\* carrier, and no other line: none for a carrier without such a record,
\* and none at all when no carrier has one.
C25_OneLinePerPrimary ==
    (lineStart # NoPoint /\ ~RcgStrictlyClosest) =>
        /\ \A key \in {"2degrees", "one", "spark"} :
              Cardinality({i \in 1..Len(addressLines) : addressLines[i].key = key})
                  = IF Candidates(key) = {} THEN 0 ELSE 1
        /\ \A i \in 1..Len(addressLines) :
              /\ addressLines[i].key \in {"2degrees", "one", "spark"}
              /\ IsNearest(addressLines[i].end, addressLines[i].key)

\* an rcg record exactly as far as the nearest primary record: lines to the
\* two primary carriers that have records, none to rcg or to 2degrees
C25_Witness ==
    /\ lineStart = At(0, 0)
    /\ Candidates("rcg") # {}
    /\ Candidates("2degrees") = {}
    /\ Len(addressLines) = 2
    /\ addressLines[1].key = "one"
    /\ addressLines[2].key = "spark"
    /\ \E r \in Candidates("rcg") :
          SquaredDegrees(r) = SquaredDegrees(addressLines[2].end)

(***************************************************************************)
(* Properties of the address suggestions (checked under SpecAddr).         *)
(***************************************************************************)
\* C26: whenever renderAddressSuggestions shows the places found by a
\* lookup, the lookup's query is the query the address box holds at that
\* moment.
C26_RendersLatestQuery ==
    lastRender.found # <<>> => lastRender.query = lastRender.typed

(***************************************************************************)
(* Properties of fetch_all and main (checked under SpecMain).              *)
(***************************************************************************)
\* the results of the calls cs, one after the other
RECURSIVE Concatenated(_)
Concatenated(cs) == IF cs = <<>> THEN <<>> ELSE Head(cs).results \o Concatenated(Tail(cs))

\* N: the totalPages of the response to page 1, capped at max_pages when
\* max_pages > 0
LastPage ==
    LET total == IntTotalPages(first.totalPages).n
    IN  IF max_pages > 0 /\ max_pages < total THEN max_pages ELSE total

\* C28: fetch_all asks for page 1 first, then for the pages 2..N in
\* increasing order, each once, N being the totalPages of the response to
\* page 1 capped at max_pages when max_pages > 0; what it returns is the
\* results of the pages it fetched, concatenated in page order.
C28_PagesInOrderOnce ==
    /\ \A i \in 1..Len(calls) : calls[i].page = i
    /\ \A i \in 1..(Len(calls) - 1) : ~calls[i].raised
    /\ (fa \in {"loop", "returned"}) =>
          /\ Len(calls) >= 1
          /\ calls[1].results = ResultsOf(first)
          /\ Len(calls) <= (IF LastPage < 1 THEN 1 ELSE LastPage)
    /\ fa = "returned" =>
          /\ Len(calls) = (IF LastPage < 1 THEN 1 ELSE LastPage)
          /\ ~calls[Len(calls)].raised
          /\ results = Concatenated(calls)

\* three pages reported, two fetched because max_pages = 2, and a later
\* response that reports another totalPages
C28_Witness ==
    /\ fa = "returned"
    /\ max_pages = 2
    /\ first.totalPages = Num(3)
    /\ Len(calls) = 2
    /\ results = <<[page |-> 1, item |-> 1], [page |-> 2, item |-> 1],
                   [page |-> 2, item |-> 2]>>

(***************************************************************************)
(* Properties of post_page (checked under SpecPostFair).                   *)
(***************************************************************************)
\* an attempt fails on an HTTP status >= 400 and on an exception of the
\* request or of the parse
FailedAttempt(o) == o.kind = "exc" \/ o.status >= 400 \/ ~o.json

\* post_page so far: as many exchanges as attempts and at most retries, none
\* after a success, a sleep of min(2^i, 20) s after the i-th failure; it
\* returns the body of the first success and raises after retries failures
PostContract ==
    /\ Len(posts) = attempt
    /\ attempt <= retries
    /\ \A i \in 1..(Len(posts) - 1) : FailedAttempt(posts[i])
    /\ Len(slept) = Cardinality({i \in 1..Len(posts) : FailedAttempt(posts[i])})
    /\ \A i \in 1..Len(slept) : slept[i] = (IF 2^i < 20 THEN 2^i ELSE 20)
    /\ pp = "returned" =>
          /\ attempt >= 1
          /\ ~FailedAttempt(posts[attempt])
          /\ response = [k |-> "str", n |-> posts[attempt].status, s |-> "json"]
    /\ pp \in {"run", "raised"} =>
          \A i \in 1..Len(posts) : FailedAttempt(posts[i])
    /\ pp = "raised" => attempt = retries

\* C29: post_page makes at most retries attempts, returns the first
\* successful response without a further attempt, sleeps min(2^attempt, 20)
\* seconds after every failed attempt (a status >= 400, or an exception of
\* the request or of the parse), raises only when all retries attempts have
\* failed, and ends whatever the server answers.
C29_RetriesThenFatal ==
    /\ []PostContract
    /\ <>(pp \in {"returned", "raised"})

\* five failures, the last sleep capped at 20 s
C29_Witness ==
    /\ pp = "raised"
    /\ retries = 5
    /\ slept = <<2, 4, 8, 16, 20>>

(***************************************************************************)
(* HTML-only mode of main (checked under SpecMain).                        *)
(***************************************************************************)
\* C30: without --fetch, main calls no post_page and writes no JSON file;
\* it returns 2 and writes nothing if the input file cannot be read or holds
\* no JSON array, and otherwise writes the HTML file alone.
C30_HtmlOnlyNoFetch ==
    args # "--fetch" =>
        /\ calls = <<>>
        /\ fa = "idle"
        /\ \A i \in 1..Len(written) : written[i] # "json_out"
        /\ mn \in {"start", "returned"}
        /\ mn = "returned" =>
              IF json_in = "array"
              THEN exit = 0 /\ written = <<"html_out">>
              ELSE exit = 2 /\ written = <<>>

\* no flag at all, and a file that holds a JSON object
C30_Witness ==
    /\ args = ""
    /\ json_in = "object"
    /\ mn = "returned"
    /\ exit = 2
    /\ written = <<>>

(***************************************************************************)
(* The TM2000 loop and the skipped entries of pick_lat_lon (SpecGeo).      *)
(***************************************************************************)
\* entry i is a TM2000 entry whose easting and northing are numbers and
\* whose transform call returns
Converts(i) ==
    /\ TagOf(i) = "TM2000"
    /\ PyFloat(geo_refs[i].easting).ok
    /\ PyFloat(geo_refs[i].northing).ok
    /\ tf[i].ok

ConvertSet == {i \in 1..Len(geo_refs) : Converts(i)}

NoDirectAccepted == AcceptedSet("D") = {} /\ AcceptedSet("D2000") = {}

\* C31: with no direct entry accepted and the TM2000 transform available,
\* the result is the transform of the first TM2000 entry that converts, as
\* (lat, lon, "TM2000"), whether or not it lies in the plausibility box.
C31_FirstTM2000Unchecked ==
    (gpc = "done" /\ NoDirectAccepted /\ tr2193 /\ ConvertSet # {}) =>
        result = [lat |-> tf[Lowest(ConvertSet)].lat,
                  lon |-> tf[Lowest(ConvertSet)].lon,
                  src |-> "TM2000"]

\* a TM2000 entry fails to convert, the next one converts to a position
\* outside the box, and that position is the result
C31_Witness ==
    /\ gpc = "done"
    /\ tr2193
    /\ NoDirectAccepted
    /\ Len(geo_refs) = 2
    /\ TagOf(1) = "TM2000" /\ ~Converts(1)
    /\ Converts(2)
    /\ ~InBox(tf[2].lat, tf[2].lon)
    /\ result = [lat |-> tf[2].lat, lon |-> tf[2].lon, src |-> "TM2000"]

\* entry i is looked at by a loop and raises inside its try block: its
\* easting or northing is no number, or its transform call fails
Unusable(i) ==
    LET badNumber == \/ ~PyFloat(geo_refs[i].easting).ok
                     \/ ~PyFloat(geo_refs[i].northing).ok
    IN  \/ /\ TagOf(i) \in {"D", "D2000"}
           /\ badNumber \/ (UsesTransform(TagOf(i), tr4167, tr4272) /\ ~tf[i].ok)
        \/ /\ TagOf(i) = "TM2000"
           /\ tr2193
           /\ badNumber \/ ~tf[i].ok

\* s without its entry i
Without(s, i) == [j \in 1..(Len(s) - 1) |-> IF j < i THEN s[j] ELSE s[j + 1]]

\* no entry of the list gives a position
NoneResolves == NoDirectAccepted /\ (tr2193 => ConvertSet = {})

IsDay(v) == v.k = "str" /\ v.s = "YYYY-MM-DD"

\* day number v lies within the bounds from and to, each bound included,
\* and is required to exist as soon as one bound is set
WithinDays(v, from, to) ==
    /\ (IsDay(from) \/ IsDay(to)) => IsDay(v)
    /\ IsDay(from) => v.n >= from.n
    /\ IsDay(to) => v.n <= to.n

\* the date tests of passesBaseFilters on record r for the date inputs of
\* the page, the location and district filters left empty
PassesDateTests(r) ==
    passesBaseFilters(r, getFilters("", "", qCommFrom, qCommTo, qExpFrom, qExpTo, tz), tz)

\* C33: each of the four date bounds is inclusive: a record passes the date
\* tests exactly when its commencement day lies within [commFrom, commTo]
\* and its expiry day within [expFrom, expTo], a record without the date
\* failing as soon as a bound of the pair is set.
C33_DateBoundsInclusive ==
    \A i \in 1..Len(DATA) :
        PassesDateTests(DATA[i]) <=>
            /\ WithinDays(DATA[i].commencementDate, qCommFrom, qCommTo)
            /\ WithinDays(DATA[i].expiryDate, qExpFrom, qExpTo)

(***************************************************************************)
(* The Uber records and the page (SpecLoad).                               *)
(***************************************************************************)
IsUber(r) == carrierKeyFromLicensee(r.licensee) = "uber" \/ CarrierOf(r) = "uber"

\* the records that pass the base filters of the inputs as they stand
BaseFilteredNow ==
    Filter(DATA, {r \in Range(DATA) : passesBaseFilters(r, CurrentFilters, tz)})

\* C34: once init() has run, no record whose licensee classifies as "uber"
\* is in DATA, in the base-filtered set or in latestFiltered, there is no
\* carrier button "uber", and "uber" is not in the availability set.
C34_UberExcluded ==
    ipc = "ready" =>
        /\ \A r \in Range(DATA) : ~IsUber(r)
        /\ \A r \in Range(BaseFilteredNow) : ~IsUber(r)
        /\ \A r \in Range(latestFiltered) : ~IsUber(r)
        /\ "uber" \notin carrierBtns
        /\ "uber" \notin availCarriers(BaseFilteredNow, bandSelected)
        /\ "uber" \notin carrierSelected

\* the file holds an Uber record and two others, and a button was clicked
C34_Witness ==
    /\ ipc = "ready"
    /\ Len(dataFile) = 3
    /\ \E i \in 1..Len(dataFile) : IsUber(dataFile[i])
    /\ Len(DATA) = 2
    /\ carrierSelected # {}
    /\ latestFiltered # <<>>

(***************************************************************************)
(* The flood-fill of refresh, one loop iteration at a time (SpecFlood).    *)
(* Groups lie on one meridian, 44 m apart for the first three of the pool  *)
(* and far away for the fourth.                                            *)
(***************************************************************************)
FloodGroup(key, ck, lat) ==
    [key |-> key, carrierKey |-> ck, lat |-> lat, lon |-> 1747000000, items |-> <<>>]

FloodPool ==
    << FloodGroup("a", "spark", -412000000),
       FloodGroup("b", "one", -411996000),
       FloodGroup("c", "spark", -411992000),
       FloodGroup("d", "rcg", -411900000) >>

\* groupList: groups of the pool, at most MaxGroups of them, in any order
GroupLists ==
    UNION {Orderings(Filter(FloodPool, S)) :
              S \in {T \in SUBSET Range(FloodPool) : Cardinality(T) <= MaxGroups}}

KeysOf(groups) == {groups[i].key : i \in 1..Len(groups)}

\* one more for every key of keys
Counted(count, keys) == [k \in DOMAIN count |-> IF k \in keys THEN count[k] + 1 ELSE count[k]]

\* DeleteSeed that leaves the seed in the Set
SeedStays(unassigned, seedKey) == unassigned

\* unassigned.delete(seedKey)
DeleteSeed(unassigned, seedKey) == SelectSeq(unassigned, LAMBDA g : g.key # seedKey)

InitFlood ==
    /\ floodGroups \in GroupLists
    /\ fpc = "outer"
    /\ floodUnassigned = floodGroups
    /\ floodQueue = <<>>
    /\ floodClusterGroups = <<>>
    /\ floodClusters = <<>>
    /\ removals = [k \in KeysOf(floodGroups) |-> 0]
    /\ pushes = [k \in KeysOf(floodGroups) |-> 0]
    /\ PageIdleButFlood
    /\ PythonIdle

\* while (unassigned.size > 0): the first key of the Set is the seed
Seed ==
    /\ fpc = "outer"
    /\ floodUnassigned # <<>>
    /\ LET seed == Head(floodUnassigned)
       IN  /\ floodClusterGroups' = <<>>
           /\ floodQueue' = <<seed>>
           /\ floodUnassigned' = DeleteSeed(floodUnassigned, seed.key)
           /\ removals' = Counted(removals, KeysOf(floodUnassigned) \ KeysOf(floodUnassigned'))
           /\ pushes' = Counted(pushes, {seed.key})
    /\ fpc' = "inner"
    /\ UNCHANGED <<floodGroups, floodClusters>>
    /\ UNCHANGED <<pageVars, selVars, inputVars, viewVars, refreshTimer, timeouts, clicks, addrVars,
                   geoVars, normVars, classVars, cliVars>>

\* while (queue.length): pop a group; every unassigned group within 50 m of
\* it leaves unassigned and is pushed
Pop ==
    /\ fpc = "inner"
    /\ floodQueue # <<>>
    /\ LET current == floodQueue[Len(floodQueue)]
           near == SelectSeq(floodUnassigned, LAMBDA c : Near(current, c))
           far == SelectSeq(floodUnassigned, LAMBDA c : ~Near(current, c))
       IN  /\ floodClusterGroups' = Append(floodClusterGroups, current)
           /\ floodQueue' = SubSeq(floodQueue, 1, Len(floodQueue) - 1) \o near
           /\ floodUnassigned' = far
           /\ removals' = Counted(removals, KeysOf(near))
           /\ pushes' = Counted(pushes, KeysOf(near))
    /\ UNCHANGED <<fpc, floodGroups, floodClusters>>
    /\ UNCHANGED <<pageVars, selVars, inputVars, viewVars, refreshTimer, timeouts, clicks, addrVars,
                   geoVars, normVars, classVars, cliVars>>

\* the queue is empty: the cluster is made and set for each of its groups
Close ==
    /\ fpc = "inner"
    /\ floodQueue = <<>>
    /\ floodClusters' =
          [k \in DOMAIN floodClusters \cup KeysOf(floodClusterGroups) |->
              IF k \in KeysOf(floodClusterGroups)
              THEN MakeCluster(floodClusterGroups)
              ELSE floodClusters[k]]
    /\ fpc' = "outer"
    /\ UNCHANGED <<floodGroups, floodUnassigned, floodQueue, floodClusterGroups,
                   removals, pushes>>
    /\ UNCHANGED <<pageVars, selVars, inputVars, viewVars, refreshTimer, timeouts, clicks, addrVars,
                   geoVars, normVars, classVars, cliVars>>

\* unassigned is empty: the loop ends
Finish ==
    /\ fpc = "outer"
    /\ floodUnassigned = <<>>
    /\ fpc' = "done"
    /\ UNCHANGED <<floodGroups, floodUnassigned, floodQueue, floodClusterGroups,
                   floodClusters, removals, pushes>>
    /\ UNCHANGED <<pageVars, selVars, inputVars, viewVars, refreshTimer, timeouts, clicks, addrVars,
                   geoVars, normVars, classVars, cliVars>>

NextFlood == Seed \/ Pop \/ Close \/ Finish

SpecFlood == InitFlood /\ [][NextFlood]_vars

\* refresh is one synchronous call: its loop goes on until it ends
SpecFloodFair == SpecFlood /\ WF_vars(NextFlood)

\* at every step no key has left unassigned more than once and no group was
\* pushed more than once; at the end unassigned is empty, every key has left
\* it once and every group has its Cluster, the one ClusterByGroupKey states
FloodContract ==
    /\ \A k \in KeysOf(floodGroups) : removals[k] <= 1 /\ pushes[k] <= 1
    /\ fpc = "done" =>
          /\ floodUnassigned = <<>>
          /\ floodQueue = <<>>
          /\ \A k \in KeysOf(floodGroups) : removals[k] = 1
          /\ DOMAIN floodClusters = KeysOf(floodGroups)
          /\ \A k \in KeysOf(floodGroups) :
                \E i \in 1..Len(floodClusters[k].groups) : floodClusters[k].groups[i].key = k
          /\ floodClusters = ClusterByGroupKey(floodGroups)

\* C35: the flood-fill ends for every finite groupList: each group leaves
\* unassigned exactly once and is pushed at most once, and at the end
\* unassigned is empty and every group is assigned to a Cluster.
C35_FloodFillTerminates == []FloodContract /\ <>(fpc = "done")

\* three groups in a chain were clustered together and a fourth apart
C35_Witness ==
    /\ fpc = "done"
    /\ Len(floodGroups) = 3
    /\ "d" \in KeysOf(floodGroups)
    /\ Len(floodClusters["d"].groups) = 1
    /\ \E k \in KeysOf(floodGroups) : Len(floodClusters[k].groups) = 2

(***************************************************************************)
(* The debounce of the location input (SpecDebounce).                      *)
(***************************************************************************)
\* a step that takes a timeout from the browser: TimerFires, or a
\* refreshImmediate that clears it
TimeoutEnds == timeouts > 0 /\ timeouts' = timeouts - 1

\* a timeout the browser holds fires once its 120 ms have passed, unless it
\* is cleared before: no timeout stays pending forever.  (Every TimerFires
\* step is a TimeoutEnds step and both are enabled in the same states, so
\* this asks less than weak fairness of TimerFires.)
SpecDebounce == SpecGroups /\ WF_timeouts(TimeoutEnds)

\* latestFiltered is not what the inputs and selections as they stand give
Stale == latestFiltered # SelectionFilter(BaseFilteredNow, carrierSelected, bandSelected)

\* the browser holds at most one timeout, the one refreshTimer names, and
\* the view is stale only while that timeout is pending
DebounceContract ==
    /\ timeouts <= 1
    /\ refreshTimer <=> timeouts = 1
    /\ Stale => refreshTimer

\* C36: at most one debounced refresh is pending; an input event leaves one
\* pending (the earlier one cancelled); and a refresh that uses the latest
\* text eventually runs, so latestFiltered does not stay stale.
C36_DebouncedNeverLost ==
    /\ []DebounceContract
    /\ refreshTimer ~> ~refreshTimer
    /\ Stale ~> ~Stale

\* the text was edited, the view is stale and one timeout is pending
C36_Witness ==
    /\ qLocation = "Wel"
    /\ latestFiltered # <<>>
    /\ Stale
    /\ refreshTimer
    /\ timeouts = 1

(***************************************************************************)
(* Clicks on enabled buttons (SpecGroups).                                 *)
(***************************************************************************)
\* the last event was a click on a button that was enabled and not selected
ClickedUnselected ==
    /\ clicks.facet \in {"carrier", "band"}
    /\ ~clicks.twice
    /\ clicks.key \notin clicks.start

\* C37: a click on a carrier or band button that is enabled and not
\* selected leaves a filtered result that is not empty, whether or not a
\* debounced refresh of the location text was pending at the click.
C37_EnabledClickNonEmpty == ClickedUnselected => latestFiltered # <<>>

(***************************************************************************)
(* The proximity lines and the filtered set (SpecLines).                   *)
(***************************************************************************)
\* C38: every line of addressLineLayer ends at a record of latestFiltered:
\* refresh clears the lines and drawNearestCarrierLines draws them to
\* records of latestFiltered only, whatever the order of the filter changes
\* and of the positions that arrive.
C38_LinesEndInFiltered ==
    \A i \in 1..Len(addressLines) : addressLines[i].end \in Range(latestFiltered)

\* lines drawn while a carrier is selected and an edit of the location box
\* is pending
C38_Witness ==
    /\ Len(addressLines) >= 1
    /\ carrierSelected # {}
    /\ refreshTimer
    /\ Len(latestFiltered) < Len(DATA)

(***************************************************************************)
(* Direct address searches in flight (SpecSearch).                         *)
(***************************************************************************)
\* two searches were submitted and both were answered with a place
BothShown ==
    /\ Len(searches) >= 2
    /\ \A id \in 1..Len(searches) : searches[id].state \in {"shown", "empty", "failed"}
    /\ searches[Len(searches)].state = "shown"
    /\ searches[Len(searches) - 1].state = "shown"

\* C39: once two direct searches have both been answered, the address
\* marker stands at the place of the query submitted last, and the
\* proximity lines on the map start there, whichever answer came first.
C39_LatestQueryDisplayed ==
    BothShown =>
        /\ addressMarker = GeocodeOf(searches[Len(searches)].query)
        /\ lineStart \in {NoPoint, GeocodeOf(searches[Len(searches)].query)}

(***************************************************************************)
(* The carrier buttons and the records of unknown carrier (SpecUI).        *)
(***************************************************************************)
ButtonKeys == {"2degrees", "one", "spark", "rcg", "tuatea"}

\* C40: the carrier buttons are among 2degrees, one, spark, rcg and tuatea,
\* and so is carrierSelected; after a refresh a record of carrier "unknown"
\* is in latestFiltered exactly when it passes the base filters, its band
\* is selected or no band is, and no carrier is selected.
C40_UnknownOnlyWhenNoCarrier ==
    /\ carrierBtns \subseteq ButtonKeys
    /\ carrierSelected \subseteq carrierBtns
    /\ ~refreshTimer =>
          \A r \in Range(DATA) :
              CarrierOf(r) = "unknown" =>
                  (r \in Range(latestFiltered) <=>
                      /\ passesBaseFilters(r, CurrentFilters, tz)
                      /\ bandSelected = {} \/ BandOf(r) \in bandSelected
                      /\ carrierSelected = {})

\* a record of unknown carrier passes the base filters and its band is
\* selected, and it is left out because a carrier is selected
C40_Witness ==
    /\ ~refreshTimer
    /\ carrierSelected = {"spark"}
    /\ bandSelected # {}
    /\ \E r \in Range(DATA) :
          /\ CarrierOf(r) = "unknown"
          /\ passesBaseFilters(r, CurrentFilters, tz)
          /\ BandOf(r) \in bandSelected
          /\ r \notin Range(latestFiltered)

====
